---- MODULE Spec2Model ----
(***************************************************************************)
(* Model of examples/server/parsers/qwen3_parser.hpp (namespace qwen3):    *)
(* the JSON and the attribute-style XML tool-call extractors, the content  *)
(* sanitizer and the partial-content predicate.                            *)
(*                                                                         *)
(* A std::string is a sequence of one-character strings.  Positions are    *)
(* the 0-based positions of the C++ code: the character at position p of   *)
(* s is s[p+1].  BadByte stands for the single byte 0xFF, which is never   *)
(* part of valid UTF-8.                                                    *)
(***************************************************************************)
EXTENDS Integers, Sequences, FiniteSets, TLC

VARIABLES
    text,                   \* argument of the last call
    segs,                   \* the segments text was put together from
    is_partial,             \* is_partial argument of the last sanitizer call
    regex_stack,            \* characters the stack let a match attempt advance
    killed,                 \* the last call overflowed the stack: no return
    op,                     \* the function called last
    tool_calls,             \* list returned by the last extractor call
    xml_invoked,            \* parse_tool_calls reached line 186 in the last call
    json_calls,             \* tool_calls when the loop of lines 128-178 ended
    content,                \* string returned by the last sanitizer call
    kept,                   \* positions of text that survived regex_replace
    cut,                    \* position in text of the marker line 207 cut at
    partial,                \* value returned by is_partial_content_advanced
    universal_call_counter, \* the function-local static of line 93
    counter_before,         \* universal_call_counter when the last call began
    issued,                 \* every call_universal_N id returned so far
    invocations,            \* number of calls made so far
    ctx                     \* the concurrent callers of the XML extractor

vars == <<text, segs, is_partial, regex_stack, killed, op, tool_calls,
          xml_invoked, json_calls, content, kept, cut, partial,
          universal_call_counter, counter_before, issued, invocations, ctx>>

----------------------------------------------------------------------------
(* std::string primitives *)

NPOS == -1

BadByte == "0xFF"

\* The vertical tab, 0x0B.
VTab == "0x0B"

TOOL_CALL_OPEN == <<"<","t","o","o","l","_","c","a","l","l",">">>
TOOL_CALL_CLOSE == <<"<","/","t","o","o","l","_","c","a","l","l",">">>
FUNCTION_OPEN == <<"<","f","u","n","c","t","i","o","n","=">>
FUNCTION_CLOSE == <<"<","/","f","u","n","c","t","i","o","n",">">>
PARAMETER_OPEN == <<"<","p","a","r","a","m","e","t","e","r","=">>
PARAMETER_CLOSE == <<"<","/","p","a","r","a","m","e","t","e","r",">">>
GT == <<">">>

\* The lengths the code writes as literals.
TOOL_CALL_OPEN_LEN == 11
TOOL_CALL_CLOSE_LEN == 12
FUNCTION_OPEN_LEN == 10
PARAMETER_OPEN_LEN == 11
PARAMETER_CLOSE_LEN == 12

\* s starts with pat at position p.
StartsWithAt(s, pat, p) ==
    /\ p >= 0
    /\ p + Len(pat) <= Len(s)
    /\ \A i \in 1..Len(pat) : s[p + i] = pat[i]

\* s.find(pat, from): the first position >= from where pat occurs, or npos.
Find(s, pat, from) ==
    IF \E p \in from..(Len(s) - Len(pat)) : StartsWithAt(s, pat, p)
    THEN CHOOSE p \in from..(Len(s) - Len(pat)) :
             /\ StartsWithAt(s, pat, p)
             /\ \A q \in from..(p - 1) : ~StartsWithAt(s, pat, q)
    ELSE NPOS

\* s.rfind(pat): the last position where pat occurs, or npos.
RFind(s, pat) ==
    IF \E p \in 0..(Len(s) - Len(pat)) : StartsWithAt(s, pat, p)
    THEN CHOOSE p \in 0..(Len(s) - Len(pat)) :
             /\ StartsWithAt(s, pat, p)
             /\ \A q \in (p + 1)..(Len(s) - Len(pat)) : ~StartsWithAt(s, pat, q)
    ELSE NPOS

\* s.substr(pos, count), which the code calls with pos <= size() only: count is a size_t, so a negative
\* difference wraps to a value larger than any string and, like npos, takes
\* the rest of the string.
Substr(s, pos, count) ==
    SubSeq(s, pos + 1,
           IF count < 0 \/ count > Len(s) - pos THEN Len(s) ELSE pos + count)

\* The characters of " \t\n\r".
TrimChars == {" ", "\t", "\n", "\r"}

\* s.find_first_not_of(set, from)
FindFirstNotOf(s, set, from) ==
    IF \E p \in from..(Len(s) - 1) : s[p + 1] \notin set
    THEN CHOOSE p \in from..(Len(s) - 1) :
             /\ s[p + 1] \notin set
             /\ \A q \in from..(p - 1) : s[q + 1] \in set
    ELSE NPOS

\* s.find_last_not_of(set)
FindLastNotOf(s, set) ==
    IF \E p \in 0..(Len(s) - 1) : s[p + 1] \notin set
    THEN CHOOSE p \in 0..(Len(s) - 1) :
             /\ s[p + 1] \notin set
             /\ \A q \in (p + 1)..(Len(s) - 1) : s[q + 1] \in set
    ELSE NPOS

\* s.erase(0, n): n = npos erases everything.
ErasePrefix(s, n) ==
    IF n = NPOS \/ n >= Len(s) THEN <<>> ELSE SubSeq(s, n + 1, Len(s))

\* s.erase(pos): drops everything from pos on.
EraseFrom(s, pos) == SubSeq(s, 1, pos)

\* Line 86 (134): erase what follows the last character not in " \t\n\r".
TrimRight(s) == EraseFrom(s, FindLastNotOf(s, TrimChars) + 1)

\* The two erase calls that trim " \t\n\r" from both ends of a string.
TrimValue(s) == TrimRight(ErasePrefix(s, FindFirstNotOf(s, TrimChars, 0)))

Digit(d) == <<"0","1","2","3","4","5","6","7","8","9">>[d + 1]

RECURSIVE to_string(_)
\* std::to_string of a non-negative int: its decimal digits.
to_string(n) ==
    IF n < 10 THEN <<Digit(n)>> ELSE to_string(n \div 10) \o <<Digit(n % 10)>>

\* The character at position p, or "" past the end.
CharAt(s, p) == IF p >= 0 /\ p < Len(s) THEN s[p + 1] ELSE ""

\* The first position at or after p whose character is not in set (the end
\* of s counts).
Skip(s, p, set) ==
    CHOOSE e \in p..Len(s) :
        /\ CharAt(s, e) \notin set
        /\ \A q \in p..(e - 1) : s[q + 1] \in set

----------------------------------------------------------------------------
(* Bytes                                                                   *)
(* The characters of a std::string are bytes.  A printable ASCII byte and  *)
(* each of tab, LF, FF and CR is written as itself, any other byte (the    *)
(* backquote among them) as "0xHH".                                        *)

\* The byte with the value n is Bytes[n + 1].
Bytes ==
    <<
      "0x00", "0x01", "0x02", "0x03", "0x04", "0x05", "0x06", "0x07",
      "0x08", "\t", "\n", "0x0B", "\f", "\r", "0x0E", "0x0F",
      "0x10", "0x11", "0x12", "0x13", "0x14", "0x15", "0x16", "0x17",
      "0x18", "0x19", "0x1A", "0x1B", "0x1C", "0x1D", "0x1E", "0x1F",
      " ", "!", "\"", "#", "$", "%", "&", "'",
      "(", ")", "*", "+", ",", "-", ".", "/",
      "0", "1", "2", "3", "4", "5", "6", "7",
      "8", "9", ":", ";", "<", "=", ">", "?",
      "@", "A", "B", "C", "D", "E", "F", "G",
      "H", "I", "J", "K", "L", "M", "N", "O",
      "P", "Q", "R", "S", "T", "U", "V", "W",
      "X", "Y", "Z", "[", "\\", "]", "^", "_",
      "0x60", "a", "b", "c", "d", "e", "f", "g",
      "h", "i", "j", "k", "l", "m", "n", "o",
      "p", "q", "r", "s", "t", "u", "v", "w",
      "x", "y", "z", "{", "|", "}", "~", "0x7F",
      "0x80", "0x81", "0x82", "0x83", "0x84", "0x85", "0x86", "0x87",
      "0x88", "0x89", "0x8A", "0x8B", "0x8C", "0x8D", "0x8E", "0x8F",
      "0x90", "0x91", "0x92", "0x93", "0x94", "0x95", "0x96", "0x97",
      "0x98", "0x99", "0x9A", "0x9B", "0x9C", "0x9D", "0x9E", "0x9F",
      "0xA0", "0xA1", "0xA2", "0xA3", "0xA4", "0xA5", "0xA6", "0xA7",
      "0xA8", "0xA9", "0xAA", "0xAB", "0xAC", "0xAD", "0xAE", "0xAF",
      "0xB0", "0xB1", "0xB2", "0xB3", "0xB4", "0xB5", "0xB6", "0xB7",
      "0xB8", "0xB9", "0xBA", "0xBB", "0xBC", "0xBD", "0xBE", "0xBF",
      "0xC0", "0xC1", "0xC2", "0xC3", "0xC4", "0xC5", "0xC6", "0xC7",
      "0xC8", "0xC9", "0xCA", "0xCB", "0xCC", "0xCD", "0xCE", "0xCF",
      "0xD0", "0xD1", "0xD2", "0xD3", "0xD4", "0xD5", "0xD6", "0xD7",
      "0xD8", "0xD9", "0xDA", "0xDB", "0xDC", "0xDD", "0xDE", "0xDF",
      "0xE0", "0xE1", "0xE2", "0xE3", "0xE4", "0xE5", "0xE6", "0xE7",
      "0xE8", "0xE9", "0xEA", "0xEB", "0xEC", "0xED", "0xEE", "0xEF",
      "0xF0", "0xF1", "0xF2", "0xF3", "0xF4", "0xF5", "0xF6", "0xF7",
      "0xF8", "0xF9", "0xFA", "0xFB", "0xFC", "0xFD", "0xFE", "0xFF"
    >>

\* The value of the byte c.
ByteOf(c) == (CHOOSE n \in 1..256 : Bytes[n] = c) - 1

\* The bytes below 0x20.
ControlChars == {Bytes[n] : n \in 1..32}

\* The bytes from 0x80 on.
HighBytes == {Bytes[n] : n \in 129..256}

\* The hexadecimal digits: HexChars[n + 1] is the digit dump() writes for n.
HexChars ==
    <<"0","1","2","3","4","5","6","7","8","9","a","b","c","d","e","f",
      "A","B","C","D","E","F">>

\* The value of the hexadecimal digit c, or -1.
HexValue(c) ==
    IF \E i \in 1..22 : HexChars[i] = c
    THEN (CHOOSE n \in 0..15 : HexChars[n + 1] = c \/ (n >= 10 /\ HexChars[n + 7] = c))
    ELSE -1

\* The length of the well-formed UTF-8 sequence that starts at position p of
\* s, or 0 when the bytes there are not one.
Utf8Len(s, p) ==
    LET ByteIn(q, lo, hi) ==
            q < Len(s) /\ ByteOf(s[q + 1]) >= lo /\ ByteOf(s[q + 1]) <= hi
    IN CASE ByteIn(p, 0, 127) -> 1
         [] ByteIn(p, 194, 223) /\ ByteIn(p + 1, 128, 191) -> 2
         [] /\ \/ ByteIn(p, 224, 224) /\ ByteIn(p + 1, 160, 191)
               \/ ByteIn(p, 225, 236) /\ ByteIn(p + 1, 128, 191)
               \/ ByteIn(p, 237, 237) /\ ByteIn(p + 1, 128, 159)
               \/ ByteIn(p, 238, 239) /\ ByteIn(p + 1, 128, 191)
            /\ ByteIn(p + 2, 128, 191) -> 3
         [] /\ \/ ByteIn(p, 240, 240) /\ ByteIn(p + 1, 144, 191)
               \/ ByteIn(p, 241, 243) /\ ByteIn(p + 1, 128, 191)
               \/ ByteIn(p, 244, 244) /\ ByteIn(p + 1, 128, 143)
            /\ ByteIn(p + 2, 128, 191)
            /\ ByteIn(p + 3, 128, 191) -> 4
         [] OTHER -> 0

\* The UTF-8 bytes of the code point cp.
Utf8Encode(cp) ==
    IF cp < 128 THEN <<Bytes[cp + 1]>>
    ELSE IF cp < 2048
    THEN <<Bytes[193 + (cp \div 64)], Bytes[129 + (cp % 64)]>>
    ELSE IF cp < 65536
    THEN <<Bytes[225 + (cp \div 4096)], Bytes[129 + ((cp \div 64) % 64)],
           Bytes[129 + (cp % 64)]>>
    ELSE <<Bytes[241 + (cp \div 262144)], Bytes[129 + ((cp \div 4096) % 64)],
           Bytes[129 + ((cp \div 64) % 64)], Bytes[129 + (cp % 64)]>>

----------------------------------------------------------------------------
(* nlohmann::ordered_json values and dump()                                *)
(* A value is [t, s, m]: t is its type, s the characters of a string, of   *)
(* true / false / null or of a number as dump() writes it, m the members   *)
(* of an object (key k, value v, in insertion order) or the elements of    *)
(* an array.                                                               *)

JString(s) == [t |-> "string", s |-> s, m |-> <<>>]
JNumber(s) == [t |-> "number", s |-> s, m |-> <<>>]
JLiteral(s) == [t |-> "literal", s |-> s, m |-> <<>>]
JObject(m) == [t |-> "object", s |-> <<>>, m |-> m]
JArray(m) == [t |-> "array", s |-> <<>>, m |-> m]

\* json::contains(key): false for anything but an object.
Contains(j, key) == j.t = "object" /\ \E i \in 1..Len(j.m) : j.m[i].k = key

\* j[key] for a key the object contains.
At(j, key) == j.m[CHOOSE i \in 1..Len(j.m) : j.m[i].k = key].v

\* ordered_map: j[key] = value overwrites an existing key in place and
\* appends a new one.
SetMember(m, key, value) ==
    IF \E i \in 1..Len(m) : m[i].k = key
    THEN [i \in 1..Len(m) |->
             IF m[i].k = key THEN [k |-> key, v |-> value] ELSE m[i]]
    ELSE Append(m, [k |-> key, v |-> value])

\* How dump() writes one character of a string: the two-character escapes,
\* \u00xx for the other bytes below 0x20, any other byte as it is.
EscapeChar(c) ==
    CASE c = "\"" -> <<"\\", "\"">>
      [] c = "\\" -> <<"\\", "\\">>
      [] c = Bytes[9] -> <<"\\", "b">>
      [] c = "\t" -> <<"\\", "t">>
      [] c = "\n" -> <<"\\", "n">>
      [] c = "\f" -> <<"\\", "f">>
      [] c = "\r" -> <<"\\", "r">>
      [] c \in ControlChars \ {Bytes[9], "\t", "\n", "\f", "\r"} ->
           <<"\\", "u", "0", "0", HexChars[(ByteOf(c) \div 16) + 1],
             HexChars[(ByteOf(c) % 16) + 1]>>
      [] OTHER -> <<c>>

RECURSIVE DumpString(_, _)
\* dump() of the string s from index i on, up to the closing quote; the
\* opening quote is written in front of index 1, also when s is empty.
DumpString(s, i) ==
    (IF i = 1 THEN <<"\"">> ELSE <<>>)
    \o (IF i > Len(s) THEN <<"\"">>
        ELSE EscapeChar(s[i]) \o DumpString(s, i + 1))

\* dump() throws type_error 316 on a string that is not valid UTF-8: the
\* bytes of s from some position on are no well-formed sequence.
InvalidUtf8(s) ==
    LET RECURSIVE InvalidFrom(_)
        InvalidFrom(p) ==
            IF p >= Len(s) THEN FALSE
            ELSE IF Utf8Len(s, p) = 0 THEN TRUE
            ELSE InvalidFrom(p + Utf8Len(s, p))
    IN InvalidFrom(0)

RECURSIVE Dump(_)
RECURSIVE DumpMembers(_, _, _)
\* The members (keyed) or elements (not keyed) from index i on, comma-separated.
DumpMembers(m, i, keyed) ==
    IF i > Len(m) THEN <<>>
    ELSE (IF i > 1 THEN <<",">> ELSE <<>>)
         \o (IF keyed THEN DumpString(m[i].k, 1) \o <<":">> ELSE <<>>)
         \o Dump(m[i].v)
         \o DumpMembers(m, i + 1, keyed)

\* j.dump(): compact, no whitespace.
Dump(j) ==
    CASE j.t = "string" -> DumpString(j.s, 1)
      [] j.t = "object" -> <<"{">> \o DumpMembers(j.m, 1, TRUE) \o <<"}">>
      [] j.t = "array"  -> <<"[">> \o DumpMembers(j.m, 1, FALSE) \o <<"]">>
      [] OTHER          -> j.s

RECURSIVE DumpThrows(_)
\* j.dump() throws: some string of j is not valid UTF-8.
DumpThrows(j) ==
    \/ InvalidUtf8(j.s)
    \/ \E i \in 1..Len(j.m) : InvalidUtf8(j.m[i].k) \/ DumpThrows(j.m[i].v)

\* The tool call object built at lines 97-104 and 164-171.  kind is not part
\* of the object: it records what function.arguments was made from.
ToolCall(id, name, arguments, kind) ==
    [id |-> id, type |-> "function", name |-> name, arguments |-> arguments,
     kind |-> kind]

----------------------------------------------------------------------------
(* Numbers of json::parse and dump()                                       *)
(* A number without fraction and exponent that fits 64 bits is kept as an  *)
(* integer (strtoull / strtoll); any other number is converted by strtod   *)
(* to the nearest double, and dump() writes a double with the digits that  *)
(* the Grisu2 algorithm of json.hpp generates.  The arithmetic is exact: a *)
(* natural number of any size is the sequence of its decimal digits, most  *)
(* significant first, zero the empty sequence.                             *)

\* a without leading zeros.
BigStrip(a) ==
    IF \A i \in 1..Len(a) : a[i] = 0 THEN <<>>
    ELSE SubSeq(a, CHOOSE i \in 1..Len(a) : a[i] # 0 /\ \A j \in 1..(i - 1) : a[j] = 0,
                Len(a))

\* a < b.
BigLess(a, b) ==
    \/ Len(a) < Len(b)
    \/ /\ Len(a) = Len(b)
       /\ \E i \in 1..Len(a) : a[i] < b[i] /\ \A j \in 1..(i - 1) : a[j] = b[j]

\* a + b: the digit r places from the end takes a carry when a place behind
\* it makes one and every place between passes it on.
BigAdd(a, b) ==
    LET At0(x, r) == IF r < Len(x) THEN x[Len(x) - r] ELSE 0
        Sum(r) == At0(a, r) + At0(b, r)
        Carry(r) ==
            IF \E j \in 0..(r - 1) : Sum(j) >= 10 /\ \A l \in (j + 1)..(r - 1) : Sum(l) = 9
            THEN 1 ELSE 0
        Places(n) == [i \in 1..n |-> (Sum(n - i) + Carry(n - i)) % 10]
    IN IF a = <<>> THEN b
       ELSE IF b = <<>> THEN a
       ELSE BigStrip(Places((IF Len(a) > Len(b) THEN Len(a) ELSE Len(b)) + 1))

\* a - b for a >= b, with a borrow in place of the carry.
BigSub(a, b) ==
    LET At0(x, r) == IF r < Len(x) THEN x[Len(x) - r] ELSE 0
        Borrow(r) ==
            IF \E j \in 0..(r - 1) :
                   /\ At0(a, j) < At0(b, j)
                   /\ \A l \in (j + 1)..(r - 1) : At0(a, l) = At0(b, l)
            THEN 1 ELSE 0
        Places(n) == [i \in 1..n |-> (10 + At0(a, n - i) - At0(b, n - i) - Borrow(n - i)) % 10]
    IN IF b = <<>> THEN a ELSE BigStrip(Places(Len(a)))

RECURSIVE BigShl(_, _)
\* a * 2^k: in 2 * a, a digit from 5 on carries 1 into the next one.
BigShl(a, k) ==
    IF a = <<>> \/ k = 0 THEN a
    ELSE IF k = 1
    THEN (IF a[1] >= 5 THEN <<1>> ELSE <<>>)
         \o [i \in 1..Len(a) |->
                (2 * a[i] + (IF i < Len(a) /\ a[i + 1] >= 5 THEN 1 ELSE 0)) % 10]
    ELSE BigShl(BigShl(a, k \div 2), k - (k \div 2))

RECURSIVE BigShr(_, _)
\* a \div 2^k: in a \div 2, an odd digit leaves 10 for the next one.
BigShr(a, k) ==
    IF a = <<>> \/ k = 0 THEN a
    ELSE IF k = 1
    THEN SubSeq([i \in 1..Len(a) |->
                    (a[i] + (IF i > 1 /\ a[i - 1] % 2 = 1 THEN 10 ELSE 0)) \div 2],
                IF a[1] = 1 THEN 2 ELSE 1, Len(a))
    ELSE BigShr(BigShr(a, k \div 2), k - (k \div 2))

\* a * 10^z.
BigShift10(a, z) == IF a = <<>> THEN <<>> ELSE a \o [i \in 1..z |-> 0]

\* a * b for a, b < 10^20, in parts of four digits: the products of the
\* parts that meet in part r, and what the parts behind it carry into it.
BigMul(a, b) ==
    LET At0(x, r) == IF r >= 0 /\ r < Len(x) THEN x[Len(x) - r] ELSE 0
        Part(x, r) ==
            At0(x, 4 * r) + 10 * At0(x, 4 * r + 1) + 100 * At0(x, 4 * r + 2)
            + 1000 * At0(x, 4 * r + 3)
        RECURSIVE Products(_, _)
        Products(r, i) ==
            IF i < 0 THEN 0 ELSE Part(a, i) * Part(b, r - i) + Products(r, i - 1)
        RECURSIVE Carry(_)
        Carry(r) == IF r = 0 THEN 0 ELSE (Products(r - 1, r - 1) + Carry(r - 1)) \div 10000
        Parts(n) == [r \in 1..n |-> (Products(r - 1, r - 1) + Carry(r - 1)) % 10000]
        PartDigit(v, k) ==
            CASE k = 0 -> v % 10
              [] k = 1 -> (v \div 10) % 10
              [] k = 2 -> (v \div 100) % 10
              [] k = 3 -> v \div 1000
        Places(ps, n) == [i \in 1..n |-> PartDigit(ps[(n - i) \div 4 + 1], (n - i) % 4)]
        Product(ps) == BigStrip(Places(ps, 4 * Len(ps)))
    IN IF a = <<>> \/ b = <<>> THEN <<>>
       ELSE Product(<<>> \o Parts((Len(a) + 3) \div 4 + (Len(b) + 3) \div 4))

\* The number a / 10^z rounded to a number m * 2^q of at most bits bits, m
\* even when two are equally near, for an exponent q0 that is not above q.
\* [m, q]
RoundToBits(a, z, q0, bits) ==
    LET \* x / 2^h rounded down (g), and whether a remainder was left (sticky).
        Shifted(x, h, g, sticky) == [g |-> g, sticky |-> sticky \/ BigShl(g, h) # x]
        Div2(x, h, sticky) == Shifted(x, h, BigShr(x, h), sticky)
        Dropped(x) == \E i \in 1..Len(x) : i > Len(x) - z /\ x[i] # 0
        Div10(x) == [g |-> SubSeq(x, 1, Len(x) - z), sticky |-> Dropped(x)]
        \* a / 10^z / 2^h.
        Scaled(h) ==
            IF h <= 0 THEN Div10(BigShl(a, -h))
            ELSE Div2(Div10(a).g, h, Div10(a).sticky)
        \* The bits of d.g beyond bits + 1.
        Surplus(d) ==
            CHOOSE t \in 0..8 :
                /\ BigLess(BigShr(d.g, t), BigShl(<<1>>, bits + 1))
                /\ t > 0 => ~BigLess(BigShr(d.g, t - 1), BigShl(<<1>>, bits + 1))
        Odd(x) == x # <<>> /\ x[Len(x)] % 2 = 1
        \* d.g holds one bit more than m.
        Nearest(d, half) ==
            IF Odd(d.g) /\ (d.sticky \/ Odd(half)) THEN BigAdd(half, <<1>>) ELSE half
        Carried(m, q) ==
            IF m = BigShl(<<1>>, bits) THEN [m |-> BigShl(<<1>>, bits - 1), q |-> q + 1]
            ELSE [m |-> m, q |-> q]
        Rounded(d, q) == Carried(Nearest(d, BigShr(d.g, 1)), q)
        Narrowed(d, t) == Rounded(Div2(d.g, t, d.sticky), q0 + t)
        Widest(d) == Narrowed(d, Surplus(d))
    IN Widest(Scaled(q0 - 1))

\* strtod of digits * 10^e, digits without leading zeros, as m * 2^q with
\* m < 2^53 and q >= -1074; inf: the number lies above every double.  A
\* number of mag digits before the point lies between 10^(mag-1) and 10^mag
\* (log2(10) = 3.3219...), above 10^309 it is infinite, below 10^-324 zero.
Strtod(digits, e) ==
    LET ExponentBelow(mag) ==
            IF ((mag - 1) * 3321928) \div 1000000 - 1 - 52 < -1074 THEN -1074
            ELSE ((mag - 1) * 3321928) \div 1000000 - 1 - 52
        Finite(r) == [inf |-> r.q > 971, m |-> r.m, q |-> r.q]
    IN IF digits = <<>> THEN [inf |-> FALSE, m |-> <<>>, q |-> 0]
       ELSE IF Len(digits) + e > 309 THEN [inf |-> TRUE, m |-> <<>>, q |-> 0]
       ELSE IF Len(digits) + e < -323 THEN [inf |-> FALSE, m |-> <<>>, q |-> 0]
       ELSE Finite(RoundToBits(BigShift10(digits, IF e > 0 THEN e ELSE 0),
                               IF e < 0 THEN -e ELSE 0,
                               ExponentBelow(Len(digits) + e), 53))

\* get_cached_power_for_binary_exponent(e) of json.hpp: the power of ten
\* 10^k = f * 2^e of 64 bits, k a multiple of 8 from -300 on, that brings a
\* number of the binary exponent e between 2^-60 and 2^-32.  [f, e, k]
CachedPower(e) ==
    LET Entry(k, c) == [f |-> c.m, e |-> c.q, k |-> k]
        Power(k) ==
            Entry(k, RoundToBits(BigShift10(<<1>>, IF k > 0 THEN k ELSE 0),
                                 IF k < 0 THEN -k ELSE 0,
                                 (k * 3321928) \div 1000000 - 1 - 63, 64))
        Index(k) == (300 + k + 7) \div 8
        Truncated(f) ==
            IF f < 0 THEN -((-f * 78913) \div 262144)
            ELSE (f * 78913) \div 262144 + (IF f > 0 THEN 1 ELSE 0)
    IN Power(-300 + 8 * Index(Truncated(-60 - e - 1)))

\* grisu2 of json.hpp for the double m * 2^q, m > 0: the digits it generates
\* and the decimal exponent of the last of them.  [digits, exponent]
Grisu2(m, q) ==
    LET Pow2(n) == BigShl(<<1>>, n)
        Leq(a, b) == ~BigLess(b, a)
        \* normalize: the shift that brings f to 64 bits.
        Shift(f) ==
            CHOOSE s \in 0..63 :
                /\ ~BigLess(BigShl(f, s), Pow2(63))
                /\ s > 0 => BigLess(BigShl(f, s - 1), Pow2(63))
        \* compute_boundaries: half the way to the neighbours, the lower
        \* neighbour of a power of two being half as far away; all three
        \* shifted by s to the exponent e at which the upper one has 64 bits.
        Boundaries(s) ==
            [minus |-> IF m = Pow2(52) /\ q > -1074
                       THEN BigShl(BigSub(BigShl(m, 2), <<1>>), s - 1)
                       ELSE BigShl(BigSub(BigShl(m, 1), <<1>>), s),
             w |-> BigShl(m, s + 1),
             plus |-> BigShl(BigAdd(BigShl(m, 1), <<1>>), s),
             e |-> q - 1 - s]
        \* diyfp::mul: the upper 64 bits of the product, rounded.
        Mul(f, c) == BigShr(BigAdd(BigMul(f, c), Pow2(63)), 64)
        \* The boundaries times the cached power c, the interval one unit
        \* narrower on both sides, in units of 2^-sh.
        Products(b, c) ==
            [low |-> BigAdd(Mul(b.minus, c.f), <<1>>),
             w |-> Mul(b.w, c.f),
             high |-> BigSub(Mul(b.plus, c.f), <<1>>),
             sh |-> -(b.e + c.e + 64),
             x |-> -c.k]
        Scaled(b) == Products(b, CachedPower(b.e))
        \* grisu2_digit_gen: high = p1 + p2 / 2^sh.
        Parts(v, p1) ==
            [p1 |-> p1, p2 |-> BigSub(v.high, BigShl(p1, v.sh)),
             delta |-> BigSub(v.high, v.low), dist |-> BigSub(v.high, v.w),
             sh |-> v.sh, x |-> v.x]
        Split(v) == Parts(v, BigShr(v.high, v.sh))
        \* What is left of high behind the first j digits of p1.
        IntegralRest(g, j) ==
            BigAdd(BigShl(BigStrip(SubSeq(g.p1, j + 1, Len(g.p1))), g.sh), g.p2)
        \* The first digit of p1 from the j-th on behind which what is
        \* left is within delta; 0: none.
        RECURSIVE IntegralStop(_, _)
        IntegralStop(g, j) ==
            IF Leq(IntegralRest(g, j), g.delta) THEN j
            ELSE IF j = Len(g.p1) THEN 0
            ELSE IntegralStop(g, j + 1)
        \* What is left of p2 * 10^n behind its n digits.
        FractionRest(g, n) ==
            BigSub(BigShift10(g.p2, n),
                   BigShl(BigShr(BigShift10(g.p2, n), g.sh), g.sh))
        \* The first digit behind the point from the n-th on behind which
        \* what is left is within delta.
        RECURSIVE FractionStop(_, _)
        FractionStop(g, n) ==
            IF Leq(FractionRest(g, n), BigShift10(g.delta, n)) THEN n
            ELSE FractionStop(g, n + 1)
        \* The n digits of x.
        Padded(x, n) == [i \in 1..(n - Len(x)) |-> 0] \o x
        \* The digits generated, what is left behind them, the weight ten of
        \* the last of them and its decimal exponent x.
        Fraction(g, n) ==
            [buf |-> g.p1 \o Padded(BigShr(BigShift10(g.p2, n), g.sh), n),
             rest |-> FractionRest(g, n), ten |-> Pow2(g.sh),
             delta |-> BigShift10(g.delta, n), dist |-> BigShift10(g.dist, n),
             x |-> g.x - n]
        Integral(g, j) ==
            IF j = 0 THEN Fraction(g, FractionStop(g, 1))
            ELSE [buf |-> SubSeq(g.p1, 1, j),
                  rest |-> IntegralRest(g, j),
                  ten |-> BigShl(BigShift10(<<1>>, Len(g.p1) - j), g.sh),
                  delta |-> g.delta, dist |-> g.dist, x |-> g.x + Len(g.p1) - j]
        Generated(g) == Integral(g, IntegralStop(g, 1))
        \* grisu2_round: the last digit is lowered while that brings the
        \* number nearer to the double and leaves it in the interval.
        RECURSIVE Lowered(_, _, _)
        Lowered(r, rest, t) ==
            IF /\ BigLess(rest, r.dist)
               /\ Leq(r.ten, BigSub(r.delta, rest))
               /\ \/ BigLess(BigAdd(rest, r.ten), r.dist)
                  \/ BigLess(BigSub(BigAdd(rest, r.ten), r.dist), BigSub(r.dist, rest))
            THEN Lowered(r, BigAdd(rest, r.ten), t + 1)
            ELSE t
        Rounded(r) ==
            [digits |-> [r.buf EXCEPT ![Len(r.buf)] = @ - Lowered(r, r.rest, 0)],
             exponent |-> r.x]
    IN Rounded(Generated(Split(Scaled(Boundaries(Shift(BigAdd(BigShl(m, 1), <<1>>)))))))

\* format_buffer of json.hpp for the digits ds; n = Len(ds) + the decimal
\* exponent is the position of the decimal point.
FormatBuffer(ds, n) ==
    LET Chars(x) == [i \in 1..Len(x) |-> HexChars[x[i] + 1]]
        \* append_exponent: the sign and at least two digits.
        Exponent(e) ==
            <<"e">>
            \o (IF e < 0 THEN <<"-">> ELSE <<"+">>)
            \o (IF e > -10 /\ e < 10 THEN <<"0">> ELSE <<>>)
            \o to_string(IF e < 0 THEN -e ELSE e)
    IN IF Len(ds) <= n /\ n <= 15
       THEN Chars(ds) \o [i \in 1..(n - Len(ds)) |-> "0"] \o <<".", "0">>
       ELSE IF 0 < n /\ n <= 15
       THEN Chars(SubSeq(ds, 1, n)) \o <<".">> \o Chars(SubSeq(ds, n + 1, Len(ds)))
       ELSE IF -4 < n /\ n <= 0
       THEN <<"0", ".">> \o [i \in 1..(-n) |-> "0"] \o Chars(ds)
       ELSE IF Len(ds) = 1
       THEN Chars(ds) \o Exponent(n - 1)
       ELSE Chars(SubSeq(ds, 1, 1)) \o <<".">> \o Chars(SubSeq(ds, 2, Len(ds)))
            \o Exponent(n - 1)

\* The number with the digits int before and frac after the point and the
\* exponent digits ex (negative: minus), as dump() writes it after
\* json::parse read it; ok = FALSE is the out_of_range error 406 of a number
\* that strtod makes infinite.  is_float: it has a fraction or an exponent.
NumberText(neg, int, frac, ex, minus, is_float) ==
    LET Sign == IF neg THEN <<"-">> ELSE <<>>
        Chars(x) == [i \in 1..Len(x) |-> HexChars[x[i] + 1]]
        Integer == [ok |-> TRUE, s |-> IF int = <<>> THEN <<"0">> ELSE Sign \o Chars(int)]
        Shortest(g) == FormatBuffer(g.digits, Len(g.digits) + g.exponent)
        Float(x) ==
            IF x.inf THEN [ok |-> FALSE, s |-> <<>>]
            ELSE [ok |-> TRUE,
                  s |-> Sign \o (IF x.m = <<>> THEN <<"0", ".", "0">>
                                 ELSE Shortest(Grisu2(x.m, x.q)))]
        RECURSIVE Value(_)
        Value(i) == IF i = 0 THEN 0 ELSE 10 * Value(i - 1) + ex[i]
        \* An exponent of more than five digits moves the number beyond
        \* every double.
        Exponent == (IF minus THEN -1 ELSE 1) * (IF Len(ex) > 5 THEN 99999 ELSE Value(Len(ex)))
    IN IF ~is_float /\ ~neg /\ BigLess(int, BigShl(<<1>>, 64)) THEN Integer
       ELSE IF ~is_float /\ neg /\ ~BigLess(BigShl(<<1>>, 63), int) THEN Integer
       ELSE Float(Strtod(BigStrip(int \o frac), Exponent - Len(frac)))

----------------------------------------------------------------------------
(* json::parse                                                             *)
(* A parse result is [ok, v, pos]: whether a value was read, the value,    *)
(* and the position after it.  ok = FALSE is a thrown json::exception.     *)

JsonWs == {" ", "\t", "\n", "\r"}
Digits == {"0","1","2","3","4","5","6","7","8","9"}

ParseError == [ok |-> FALSE, v |-> JLiteral(<<>>), pos |-> 0]
Parsed(v, pos) == [ok |-> TRUE, v |-> v, pos |-> pos]

SkipWs(s, p) == Skip(s, p, JsonWs)

SkipDigits(s, p) == Skip(s, p, Digits)

\* The character an escape sequence \c stands for ("" when there is none).
Unescape(c) ==
    CASE c = "\"" -> "\""
      [] c = "\\" -> "\\"
      [] c = "/"  -> "/"
      [] c = "b"  -> Bytes[9]
      [] c = "f"  -> "\f"
      [] c = "n"  -> "\n"
      [] c = "r"  -> "\r"
      [] c = "t"  -> "\t"
      [] OTHER    -> ""

\* The escape \uXXXX whose digits start at position p.  A code point from
\* D800 to DBFF must be followed by a \uXXXX from DC00 to DFFF and makes one
\* code point above FFFF with it; one from DC00 to DFFF may not stand alone.
\* [ok, bytes, next]: the UTF-8 bytes it stands for and the position after it.
UnescapeUnicode(s, p) ==
    LET \* get_codepoint: the value of the four hexadecimal digits at q, or -1.
        Codepoint(q) ==
            IF \E i \in 0..3 : HexValue(CharAt(s, q + i)) = -1 THEN -1
            ELSE 4096 * HexValue(CharAt(s, q)) + 256 * HexValue(CharAt(s, q + 1))
                 + 16 * HexValue(CharAt(s, q + 2)) + HexValue(CharAt(s, q + 3))
        Failed == [ok |-> FALSE, bytes |-> <<>>, next |-> p]
    IN IF Codepoint(p) = -1 THEN Failed
       ELSE IF Codepoint(p) >= 55296 /\ Codepoint(p) <= 56319
       THEN (IF /\ CharAt(s, p + 4) = "\\"
                /\ CharAt(s, p + 5) = "u"
                /\ Codepoint(p + 6) >= 56320
                /\ Codepoint(p + 6) <= 57343
             THEN [ok |-> TRUE,
                   bytes |-> Utf8Encode(65536 + (Codepoint(p) - 55296) * 1024
                                        + (Codepoint(p + 6) - 56320)),
                   next |-> p + 10]
             ELSE Failed)
       ELSE IF Codepoint(p) >= 56320 /\ Codepoint(p) <= 57343 THEN Failed
       ELSE [ok |-> TRUE, bytes |-> Utf8Encode(Codepoint(p)), next |-> p + 4]

RECURSIVE ScanString(_, _, _)
\* The characters of a string from position p (after the opening quote) on:
\* a byte below 0x20 and bytes that are not UTF-8 are errors.
ScanString(s, p, acc) ==
    LET \* The escape u read at position p + 2.
        ScanUnicode(u) ==
            IF ~u.ok THEN ParseError ELSE ScanString(s, u.next, acc \o u.bytes)
    IN IF CharAt(s, p) = "" \/ CharAt(s, p) \in ControlChars THEN ParseError
       ELSE IF CharAt(s, p) = "\"" THEN Parsed(JString(acc), p + 1)
       ELSE IF CharAt(s, p) = "\\" /\ CharAt(s, p + 1) = "u"
       THEN ScanUnicode(UnescapeUnicode(s, p + 2))
       ELSE IF CharAt(s, p) = "\\"
       THEN IF Unescape(CharAt(s, p + 1)) = "" THEN ParseError
            ELSE ScanString(s, p + 2, Append(acc, Unescape(CharAt(s, p + 1))))
       ELSE IF CharAt(s, p) \in HighBytes
       THEN IF Utf8Len(s, p) = 0 THEN ParseError
            ELSE ScanString(s, p + Utf8Len(s, p),
                            acc \o SubSeq(s, p + 1, p + Utf8Len(s, p)))
       ELSE ScanString(s, p + 1, Append(acc, CharAt(s, p)))

\* A number at position p: -? (0 | [1-9][0-9]*) (. [0-9]+)? ([eE] [+-]? [0-9]+)?
\* Its token is s[p..x1-1]: integer digits s[i0..i1-1], fraction digits
\* s[i1+1..f1-1] when f1 > i1, exponent digits s[x0..x1-1] when x1 > f1.
ScanNumber(s, p) ==
    LET DigitsOf(a, b) ==
            IF b <= a THEN <<>> ELSE [i \in 1..(b - a) |-> HexValue(s[a + i])]
        Number(t, x1) == IF t.ok THEN Parsed(JNumber(t.s), x1) ELSE ParseError
        Token(i0, i1, f1, x0, x1) ==
            Number(NumberText(CharAt(s, p) = "-", BigStrip(DigitsOf(i0, i1)),
                              DigitsOf(i1 + 1, f1), BigStrip(DigitsOf(x0, x1)),
                              CharAt(s, x0 - 1) = "-", x1 > i1),
                   x1)
        ExponentEnd(i0, i1, f1, x0, x1) ==
            IF x1 = x0 THEN ParseError ELSE Token(i0, i1, f1, x0, x1)
        Exponent(i0, i1, f1) ==
            IF CharAt(s, f1) \notin {"e", "E"} THEN Token(i0, i1, f1, f1, f1)
            ELSE IF CharAt(s, f1 + 1) \in {"+", "-"}
            THEN ExponentEnd(i0, i1, f1, f1 + 2, SkipDigits(s, f1 + 2))
            ELSE ExponentEnd(i0, i1, f1, f1 + 1, SkipDigits(s, f1 + 1))
        FractionEnd(i0, i1, f1) ==
            IF f1 = i1 + 1 THEN ParseError ELSE Exponent(i0, i1, f1)
        Fraction(i0, i1) ==
            IF i1 = i0 THEN ParseError
            ELSE IF CharAt(s, i1) = "." THEN FractionEnd(i0, i1, SkipDigits(s, i1 + 1))
            ELSE Exponent(i0, i1, i1)
        Integer(i0) ==
            Fraction(i0, IF CharAt(s, i0) = "0" THEN i0 + 1 ELSE SkipDigits(s, i0))
    IN Integer(IF CharAt(s, p) = "-" THEN p + 1 ELSE p)

RECURSIVE ParseValue(_, _)
RECURSIVE ParseMembers(_, _, _)
RECURSIVE ParseElements(_, _, _)

\* After a member at position e: "}" ends the object, "," brings the next key.
MemberNext(s, e, m) ==
    IF CharAt(s, e) = "}" THEN Parsed(JObject(m), e + 1)
    ELSE IF CharAt(s, e) = "," THEN ParseMembers(s, SkipWs(s, e + 1), m)
    ELSE ParseError

\* The member key: v, once v is read.
MemberValue(s, key, v, m) ==
    IF ~v.ok THEN ParseError
    ELSE MemberNext(s, SkipWs(s, v.pos), SetMember(m, key, v.v))

\* The ":" expected at position c after the key.
MemberColon(s, key, c, m) ==
    IF CharAt(s, c) # ":" THEN ParseError
    ELSE MemberValue(s, key, ParseValue(s, c + 1), m)

\* The key k, once it is read.
MemberKey(s, k, m) ==
    IF ~k.ok THEN ParseError ELSE MemberColon(s, k.v.s, SkipWs(s, k.pos), m)

\* An object from its first key at p on; m holds the members read so far.
ParseMembers(s, p, m) ==
    IF CharAt(s, p) # "\"" THEN ParseError
    ELSE MemberKey(s, ScanString(s, p + 1, <<>>), m)

\* After an element at position e: "]" ends the array, "," brings the next.
ElementNext(s, e, m) ==
    IF CharAt(s, e) = "]" THEN Parsed(JArray(m), e + 1)
    ELSE IF CharAt(s, e) = "," THEN ParseElements(s, e + 1, m)
    ELSE ParseError

\* The element v, once it is read.
ElementValue(s, v, m) ==
    IF ~v.ok THEN ParseError
    ELSE ElementNext(s, SkipWs(s, v.pos), Append(m, [k |-> <<>>, v |-> v.v]))

\* An array from its first element at p on.
ParseElements(s, p, m) == ElementValue(s, ParseValue(s, p), m)

\* An object after its "{": q is the first position that is not whitespace.
ParseObject(s, q) ==
    IF CharAt(s, q) = "}" THEN Parsed(JObject(<<>>), q + 1)
    ELSE ParseMembers(s, q, <<>>)

\* An array after its "[".
ParseArray(s, q) ==
    IF CharAt(s, q) = "]" THEN Parsed(JArray(<<>>), q + 1)
    ELSE ParseElements(s, q, <<>>)

\* The value that starts at position p, which is not whitespace.
ParseValueAt(s, p) ==
    CASE CharAt(s, p) = "{" -> ParseObject(s, SkipWs(s, p + 1))
      [] CharAt(s, p) = "[" -> ParseArray(s, SkipWs(s, p + 1))
      [] CharAt(s, p) = "\"" -> ScanString(s, p + 1, <<>>)
      [] CharAt(s, p) \in Digits \cup {"-"} -> ScanNumber(s, p)
      [] StartsWithAt(s, <<"t","r","u","e">>, p) ->
           Parsed(JLiteral(<<"t","r","u","e">>), p + 4)
      [] StartsWithAt(s, <<"f","a","l","s","e">>, p) ->
           Parsed(JLiteral(<<"f","a","l","s","e">>), p + 5)
      [] StartsWithAt(s, <<"n","u","l","l">>, p) ->
           Parsed(JLiteral(<<"n","u","l","l">>), p + 4)
      [] OTHER -> ParseError

\* The value that starts at or after position p0.
ParseValue(s, p0) == ParseValueAt(s, SkipWs(s, p0))

\* json::parse(s): ok = FALSE is a thrown parse_error.  A UTF-8 byte order
\* mark in front of the value is skipped.  The end of the input must follow
\* the value but for whitespace; the lexer takes a NUL byte where a token
\* starts for the end of the input, whatever follows it.
JsonParse(s) ==
    LET \* The token behind the value starts at p.
        AtEnd(p) == p = Len(s) \/ CharAt(s, p) = Bytes[1]
        ParseEnd(r) == IF r.ok /\ AtEnd(SkipWs(s, r.pos)) THEN r ELSE ParseError
        HasBom == /\ Len(s) >= 3
                  /\ ByteOf(s[1]) = 239 /\ ByteOf(s[2]) = 187 /\ ByteOf(s[3]) = 191
    IN ParseEnd(ParseValue(s, IF HasBom THEN 3 ELSE 0))

----------------------------------------------------------------------------
(* parse_universal_xml_tool_calls *)

CALL_UNIVERSAL == <<"c","a","l","l","_","u","n","i","v","e","r","s","a","l","_">>

RECURSIVE ParseParameters(_, _, _)

\* Lines 79-89: the value ends at param_value_end, or the loop breaks.
ParameterValue(params_section, param_name, param_value_start, param_value_end, args) ==
    IF param_value_end = NPOS THEN args
    ELSE ParseParameters(
             params_section,
             param_value_end + PARAMETER_CLOSE_LEN,
             SetMember(args, param_name,
                       JString(TrimValue(Substr(params_section, param_value_start,
                                                param_value_end - param_value_start)))))

\* Lines 72-79: the name ends at param_name_end, or the loop breaks.
ParameterName(params_section, param_name_start, param_name_end, args) ==
    IF param_name_end = NPOS THEN args
    ELSE ParameterValue(
             params_section,
             Substr(params_section, param_name_start, param_name_end - param_name_start),
             param_name_end + 1,
             Find(params_section, PARAMETER_CLOSE, param_name_end + 1),
             args)

\* Lines 69-72: param_pos is the position find returned.
ParameterAt(params_section, param_pos, args) ==
    IF param_pos = NPOS THEN args
    ELSE ParameterName(params_section,
                       param_pos + PARAMETER_OPEN_LEN,
                       Find(params_section, GT, param_pos + PARAMETER_OPEN_LEN),
                       args)

\* The while loop of lines 69-90 from param_pos on: the members of args.
ParseParameters(params_section, param_pos, args) ==
    ParameterAt(params_section, Find(params_section, PARAMETER_OPEN, param_pos), args)

\* A region that was skipped (qualified = FALSE) or yields a call; the scan
\* resumes at next.
Skipped(next) ==
    [qualified |-> FALSE, name |-> <<>>, args |-> JObject(<<>>), next |-> next]

\* Lines 57-90 and 107: "</function>" is at func_end, or the region is skipped.
RegionBody(tool_call_content, func_name, func_name_end, func_end, next) ==
    IF func_end = NPOS THEN Skipped(next)
    ELSE [qualified |-> TRUE, name |-> func_name,
          args |-> JObject(ParseParameters(
                       Substr(tool_call_content, func_name_end + 1,
                              func_end - func_name_end - 1),
                       0, <<>>)),
          next |-> next]

\* Lines 50-57: the function name must not be empty.
RegionNamed(tool_call_content, func_name, func_name_end, next) ==
    IF func_name = <<>> THEN Skipped(next)
    ELSE RegionBody(tool_call_content, func_name, func_name_end,
                    Find(tool_call_content, FUNCTION_CLOSE, 0), next)

\* Lines 43-50: the ">" that ends the function name is at func_name_end.
RegionName(tool_call_content, func_name_start, func_name_end, next) ==
    IF func_name_end = NPOS THEN Skipped(next)
    ELSE RegionNamed(tool_call_content,
                     Substr(tool_call_content, func_name_start,
                            func_name_end - func_name_start),
                     func_name_end, next)

\* Lines 35-43: "<function=" is at func_start.
RegionFunction(tool_call_content, func_start, next) ==
    IF func_start = NPOS THEN Skipped(next)
    ELSE RegionName(tool_call_content,
                    func_start + FUNCTION_OPEN_LEN,
                    Find(tool_call_content, GT, func_start + FUNCTION_OPEN_LEN),
                    next)

\* Lines 26-35: the closing marker is at tool_call_end; without one the scan
\* resumes behind the opening marker.
RegionContent(t, tool_call_start, tool_call_end) ==
    IF tool_call_end = NPOS THEN Skipped(tool_call_start + TOOL_CALL_OPEN_LEN)
    ELSE RegionFunction(
             Substr(t, tool_call_start + TOOL_CALL_OPEN_LEN,
                    tool_call_end - tool_call_start - TOOL_CALL_OPEN_LEN),
             Find(Substr(t, tool_call_start + TOOL_CALL_OPEN_LEN,
                         tool_call_end - tool_call_start - TOOL_CALL_OPEN_LEN),
                  FUNCTION_OPEN, 0),
             tool_call_end + TOOL_CALL_CLOSE_LEN)

\* One iteration of the while loop of line 23, for the opening marker found
\* at tool_call_start.
XmlRegion(t, tool_call_start) ==
    RegionContent(t, tool_call_start, Find(t, TOOL_CALL_CLOSE, tool_call_start))

\* UniversalId with a post-increment: the id names the old counter value.
UniversalIdPostIncrement(counter) == CALL_UNIVERSAL \o to_string(counter)

\* Line 94: the pre-increment of the static counter names the id.
UniversalId(counter) == CALL_UNIVERSAL \o to_string(counter + 1)

\* Lines 97-106: the call a qualified region r yields with the counter at
\* counter.
UniversalCall(r, counter) ==
    ToolCall(UniversalId(counter), r.name, Dump(r.args), "parameters")

\* The result of a scan: threw is an exception caught at line 109.
ScanResult(threw, calls, counter) ==
    [threw |-> threw, calls |-> calls, counter |-> counter]

RECURSIVE XmlScan(_, _, _, _)

\* XmlEmit without the increment of line 94.
XmlEmitNoIncrement(t, r, calls, counter) ==
    IF ~r.qualified THEN XmlScan(t, r.next, calls, counter)
    ELSE IF DumpThrows(r.args) THEN ScanResult(TRUE, calls, counter)
    ELSE XmlScan(t, r.next, Append(calls, UniversalCall(r, counter)), counter)

\* Lines 92-107 for the region r: the counter is incremented at line 94,
\* before args.dump() at line 102 can throw.
XmlEmit(t, r, calls, counter) ==
    IF ~r.qualified THEN XmlScan(t, r.next, calls, counter)
    ELSE IF DumpThrows(r.args) THEN ScanResult(TRUE, calls, counter + 1)
    ELSE XmlScan(t, r.next, Append(calls, UniversalCall(r, counter)), counter + 1)

\* Line 23: pos is the position find returned.
XmlAt(t, pos, calls, counter) ==
    IF pos = NPOS THEN ScanResult(FALSE, calls, counter)
    ELSE XmlEmit(t, XmlRegion(t, pos), calls, counter)

\* The while loop of lines 23-108 from pos on.  calls is tool_calls so far,
\* counter the static counter.
XmlScan(t, pos, calls, counter) ==
    XmlAt(t, Find(t, TOOL_CALL_OPEN, pos), calls, counter)

\* Lines 109-114: the catch returns an empty array.
XmlReturn(r) == [calls |-> IF r.threw THEN <<>> ELSE r.calls, counter |-> r.counter]

\* parse_universal_xml_tool_calls(text) with the static counter at counter:
\* the list returned and the counter afterwards.
parse_universal_xml_tool_calls(t, counter) == XmlReturn(XmlScan(t, 0, <<>>, counter))

----------------------------------------------------------------------------
(* parse_tool_calls *)

QWEN3_CALL == <<"q","w","e","n","3","_","c","a","l","l","_">>
NAME == <<"n","a","m","e">>
ARGUMENTS == <<"a","r","g","u","m","e","n","t","s">>

\* What \s matches and std::isspace accepts.
SpaceChars == {" ", "\t", "\n", "\r", "\f", VTab}

\* \s* from position p: greedy, and nothing that follows it in the patterns
\* can start with a space character.
SkipSpace(s, p) == Skip(s, p, SpaceChars)

\* \}\s*</tool_call> matches at position p.
BraceEndsAt(s, p) ==
    /\ s[p + 1] = "}"
    /\ StartsWithAt(s, TOOL_CALL_CLOSE, SkipSpace(s, p + 1))

\* [\s\S]*?\}\s*</tool_call> from position j: the first "}" at or after j that
\* is followed by \s*</tool_call>, or npos.
LazyBraceEnd(s, j) ==
    IF \E p \in j..(Len(s) - 1) : BraceEndsAt(s, p)
    THEN CHOOSE p \in j..(Len(s) - 1) :
             BraceEndsAt(s, p) /\ \A q \in j..(p - 1) : ~BraceEndsAt(s, q)
    ELSE NPOS

NoMatch == [found |-> FALSE, first |-> 0, last |-> 0, end |-> 0]

\* A match of <tool_call>\s*(\{[\s\S]*?\})\s*</tool_call> that starts at the
\* opening marker at i.
ToolCallMatchAt(s, i) ==
    LET \* The capture s[first..last]; the match ends before position end.
        MatchCapture(first, last) ==
            IF last = NPOS THEN NoMatch
            ELSE [found |-> TRUE, first |-> first, last |-> last,
                  end |-> SkipSpace(s, last + 1) + TOOL_CALL_CLOSE_LEN]
        \* After <tool_call>\s*: the capture starts with "{" at first.
        MatchBrace(first) ==
            IF CharAt(s, first) # "{" THEN NoMatch
            ELSE MatchCapture(first, LazyBraceEnd(s, first + 1))
    IN MatchBrace(SkipSpace(s, i + TOOL_CALL_OPEN_LEN))

RECURSIVE ToolCallSearch(_, _)
\* The leftmost match that starts at or after from (found = FALSE: none):
\* what the sregex_iterator of line 124 yields next.
ToolCallSearch(s, from) ==
    LET \* The match at the opening marker at i, or the search goes on
        \* behind i.
        SearchMatch(i, found) == IF found.found THEN found ELSE ToolCallSearch(s, i + 1)
        \* i is the next opening marker.
        SearchAt(i) == IF i = NPOS THEN NoMatch ELSE SearchMatch(i, ToolCallMatchAt(s, i))
    IN SearchAt(Find(s, TOOL_CALL_OPEN, from))

\* The position up to which the attempt to match the pattern of line 123 at
\* the opening marker at i advances: the character behind the space when it
\* is no "{", the end of the match, or the end of s when [\s\S]*? finds no
\* "}" that \s*</tool_call> follows.
ToolCallAttemptEnd(s, i) ==
    LET AfterBrace(found) == IF found.found THEN found.end ELSE Len(s)
        AfterSpace(first) ==
            IF CharAt(s, first) # "{" THEN first
            ELSE AfterBrace(ToolCallMatchAt(s, i))
    IN AfterSpace(SkipSpace(s, i + TOOL_CALL_OPEN_LEN))

\* The recursion depth of a std::regex algorithm on s.  The executor of
\* libstdc++ matches depth-first and calls itself for every character an
\* attempt advances over, so the depth is the longest advance of one
\* attempt; ends[i] is the position the attempt at the opening marker at i
\* advances to, and an attempt that starts anywhere else ends inside the
\* marker.
RegexDepth(s, ends) ==
    LET Deepest(advances) ==
            IF advances = {} THEN 0
            ELSE CHOOSE d \in advances : \A e \in advances : e <= d
    IN Deepest({ends[i] - i :
                   i \in {p \in 0..(Len(s) - 1) : StartsWithAt(s, TOOL_CALL_OPEN, p)}})

\* What a call gives that recursed deeper than the stack allows: the process
\* is killed (SIGSEGV) inside the call; nothing is returned or thrown.
Killed == [killed |-> TRUE]

\* Qwen3Id with a post-increment: the id names the old counter value.
Qwen3IdPostIncrement(call_counter) == QWEN3_CALL \o to_string(call_counter)

\* Line 161: the pre-increment of the local counter names the id.
Qwen3Id(call_counter) == QWEN3_CALL \o to_string(call_counter + 1)

\* Lines 150-158: the arguments string of a decoded call object.
ExtractArguments(parsed_json) ==
    IF Contains(parsed_json, ARGUMENTS)
    THEN IF At(parsed_json, ARGUMENTS).t = "string"
         THEN At(parsed_json, ARGUMENTS).s
         ELSE Dump(At(parsed_json, ARGUMENTS))
    ELSE <<"{", "}">>

\* Which branch of lines 151-158 made the arguments string.
ArgumentsKind(parsed_json) ==
    IF Contains(parsed_json, ARGUMENTS)
    THEN IF At(parsed_json, ARGUMENTS).t = "string" THEN "string" ELSE "structured"
    ELSE "absent"

\* Lines 141-148: the decoded candidate passes validation.
ValidCall(parsed_json) ==
    /\ Contains(parsed_json, NAME)
    /\ At(parsed_json, NAME).t = "string"
    /\ At(parsed_json, NAME).s # <<>>

\* Lines 160-173: the call a valid candidate yields.
Qwen3Call(parsed_json, call_counter) ==
    ToolCall(Qwen3Id(call_counter), At(parsed_json, NAME).s,
             ExtractArguments(parsed_json), ArgumentsKind(parsed_json))

RECURSIVE JsonScan(_, _, _, _)

\* Lines 136-177 for a candidate: parsed is what json::parse gave.
JsonCandidate(t, next, parsed, calls, call_counter) ==
    IF ~parsed.ok THEN JsonScan(t, next, calls, call_counter)
    ELSE IF ~ValidCall(parsed.v) THEN JsonScan(t, next, calls, call_counter)
    ELSE JsonScan(t, next, Append(calls, Qwen3Call(parsed.v, call_counter)),
                  call_counter + 1)

\* Lines 128-138 for the match m.
JsonMatch(t, m, calls, call_counter) ==
    IF ~m.found THEN calls
    ELSE JsonCandidate(t, m.end,
                       JsonParse(TrimValue(SubSeq(t, m.first + 1, m.last + 1))),
                       calls, call_counter)

\* The for loop of lines 128-178 from position from on.
JsonScan(t, from, calls, call_counter) ==
    JsonMatch(t, ToolCallSearch(t, from), calls, call_counter)

\* FallsBack with the test of line 185 negated.
FallsBackWhenFound(calls) == calls # <<>>

\* Line 185: the fallback is taken when the JSON pass found nothing.
FallsBack(calls) == calls = <<>>

\* Lines 184-189: xml is what the XML extractor returns for the same text.
ParseReturn(json, xml, counter) ==
    IF FallsBack(json)
    THEN [calls |-> xml.calls, json |-> json, xml_invoked |-> TRUE,
          counter |-> xml.counter, killed |-> FALSE]
    ELSE [calls |-> json, json |-> json, xml_invoked |-> FALSE,
          counter |-> counter, killed |-> FALSE]

\* parse_tool_calls(text) with the static counter at counter.  stack: the
\* number of characters a match attempt of the iterator of line 124 can
\* advance over before its recursion runs out of stack.  The pattern of
\* line 123 is a valid constant and the executor raises no regex_error, and
\* what json::parse and the accessors throw is caught at line 174: no text
\* makes the scan reach the catch of line 179.
parse_tool_calls(t, counter, stack) ==
    IF RegexDepth(t, [i \in 0..(Len(t) - 1) |-> ToolCallAttemptEnd(t, i)]) > stack
    THEN Killed
    ELSE ParseReturn(JsonScan(t, 0, <<>>, 0),
                     parse_universal_xml_tool_calls(t, counter), counter)

----------------------------------------------------------------------------
(* extract_content_during_parsing, clean_content *)

\* The positions a..b-1.
Range(a, b) == [k \in 1..(b - a) |-> a + k - 1]

\* The characters of t at the positions ks.
Pick(t, ks) == [k \in 1..Len(ks) |-> t[ks[k] + 1]]

\* ReplaceMatch that replaces the first match only (format_first_only).
ReplaceFirstMatchOnly(t, pos, i, c) ==
    IF c = NPOS THEN Range(pos, Len(t))
    ELSE Range(pos, i) \o Range(c + TOOL_CALL_CLOSE_LEN, Len(t))

RECURSIVE KeptByReplace(_, _)

\* A match from the opening marker at i to the closing marker at c.
ReplaceMatch(t, pos, i, c) ==
    IF c = NPOS THEN Range(pos, Len(t))
    ELSE Range(pos, i) \o KeptByReplace(t, c + TOOL_CALL_CLOSE_LEN)

\* std::regex_replace(content, <tool_call>[\s\S]*?</tool_call>, "") from
\* position pos on: the positions of t that are copied to the result.  A
\* match starts at the first opening marker and ends with the first closing
\* marker after it; the search resumes behind the match.
KeptByReplace(t, pos) ==
    LET \* i is the next opening marker.
        ReplaceAt(i) ==
            IF i = NPOS THEN Range(pos, Len(t))
            ELSE ReplaceMatch(t, pos, i, Find(t, TOOL_CALL_CLOSE, i + TOOL_CALL_OPEN_LEN))
    IN ReplaceAt(Find(t, TOOL_CALL_OPEN, pos))

\* The position up to which the attempt to match the pattern of line 198 at
\* the opening marker at i advances: the end of the first closing marker
\* behind it, or the end of t when [\s\S]*? finds none.
ReplaceAttemptEnd(t, i) ==
    LET AfterClose(c) == IF c = NPOS THEN Len(t) ELSE c + TOOL_CALL_CLOSE_LEN
    IN AfterClose(Find(t, TOOL_CALL_CLOSE, i + TOOL_CALL_OPEN_LEN))

\* string_strip(s) of common.cpp, as the range [start, end) it keeps: it
\* drops the characters std::isspace accepts from both ends.
string_strip(s) ==
    LET \* The last position of s that std::isspace rejects, as the end of
        \* a range.
        StripEnd(start, last) == IF last = NPOS THEN start ELSE last + 1
    IN [start |-> Skip(s, 0, SpaceChars),
        end |-> StripEnd(Skip(s, 0, SpaceChars), FindLastNotOf(s, SpaceChars))]

\* Lines 212-219: ks are the positions of text that are left, strip the
\* range string_strip keeps of them.
ExtractStrip(t, ks, cut_at) ==
    LET ExtractStripped(strip) ==
            [content |-> Pick(t, SubSeq(ks, strip.start + 1, strip.end)),
             kept |-> SubSeq(ks, strip.start + 1, strip.end),
             cut |-> cut_at, killed |-> FALSE]
    IN ExtractStripped(string_strip(Pick(t, ks)))

\* Lines 204-208: incomplete_pos is where the first "<tool_call>" left in
\* content starts; content is cut there.
ExtractTruncate(t, replaced, incomplete_pos) ==
    IF incomplete_pos # NPOS
    THEN ExtractStrip(t, SubSeq(replaced, 1, incomplete_pos), replaced[incomplete_pos + 1])
    ELSE ExtractStrip(t, replaced, NPOS)

\* Lines 202-209: replaced are the positions regex_replace kept.
ExtractReplaced(t, partial_flag, replaced) ==
    IF partial_flag
    THEN ExtractTruncate(t, replaced, Find(Pick(t, replaced), TOOL_CALL_OPEN, 0))
    ELSE ExtractStrip(t, replaced, NPOS)

\* extract_content_during_parsing(text, is_partial): the string returned,
\* the positions of text it is made of, and the position in text where the
\* marker truncated at by line 207 starts (npos: nothing was truncated).
\* stack: the number of characters a match attempt of regex_replace can
\* advance over before its recursion runs out of stack.  Nothing in lines
\* 198-212 throws on any text, so that the catch of line 214 is not reached.
extract_content_during_parsing(t, partial_flag, stack) ==
    IF RegexDepth(t, [i \in 0..(Len(t) - 1) |-> ReplaceAttemptEnd(t, i)]) > stack
    THEN Killed
    ELSE ExtractReplaced(t, partial_flag, KeptByReplace(t, 0))

\* Line 224.
clean_content(t, stack) == extract_content_during_parsing(t, FALSE, stack)

----------------------------------------------------------------------------
(* is_partial_content_advanced *)

\* Lines 241-244: regex_search finds <tool_call>\s*\{[^}]*$ somewhere.
IncompleteJsonSearch(s) ==
    LET \* The pattern matches at the opening marker at i: space, then "{"
        \* with no "}" up to the end of the input.
        IncompleteJsonAt(i) ==
            /\ StartsWithAt(s, TOOL_CALL_OPEN, i)
            /\ CharAt(s, SkipSpace(s, i + TOOL_CALL_OPEN_LEN)) = "{"
            /\ Find(s, <<"}">>, SkipSpace(s, i + TOOL_CALL_OPEN_LEN)) = NPOS
    IN \E i \in 0..(Len(s) - 1) : IncompleteJsonAt(i)

\* The position up to which the attempt to match the pattern of line 241 at
\* the opening marker at i advances: the character behind the space when it
\* is no "{", else the first "}" behind it or the end of s.
IncompleteJsonAttemptEnd(s, i) ==
    LET AfterBrace(close) == IF close = NPOS THEN Len(s) ELSE close
        AfterSpace(first) ==
            IF CharAt(s, first) # "{" THEN first
            ELSE AfterBrace(Find(s, <<"}">>, first))
    IN AfterSpace(SkipSpace(s, i + TOOL_CALL_OPEN_LEN))

\* Lines 232-238: the first opening marker has no closing marker after it.
FirstCallUnclosed(c) ==
    LET \* Line 234 for the opening marker at open_pos.
        UnclosedAt(open_pos) ==
            open_pos # NPOS /\ Find(c, TOOL_CALL_CLOSE, open_pos) = NPOS
    IN UnclosedAt(Find(c, TOOL_CALL_OPEN, 0))

\* Lines 247-261: the text from the last "<function=" on lacks "</function>",
\* or holds "<parameter=" and no "</parameter>".
FunctionUnclosed(c) ==
    LET \* Lines 252-260: func_part is the text from the last "<function="
        \* on.
        FunctionPartUnclosed(func_part) ==
            \/ Find(func_part, FUNCTION_CLOSE, 0) = NPOS
            \/ /\ Find(func_part, PARAMETER_OPEN, 0) # NPOS
               /\ Find(func_part, PARAMETER_CLOSE, 0) = NPOS
    IN /\ Find(c, FUNCTION_OPEN, 0) # NPOS
       /\ FunctionPartUnclosed(Substr(c, RFind(c, FUNCTION_OPEN), NPOS))

\* is_partial_content_advanced(content): the value returned.  stack: the
\* number of characters a match attempt of the regex_search of line 242 can
\* advance over before its recursion runs out of stack.
is_partial_content_advanced(c, stack) ==
    IF c = <<>> THEN [value |-> FALSE, killed |-> FALSE]
    ELSE IF FirstCallUnclosed(c) THEN [value |-> TRUE, killed |-> FALSE]
    ELSE IF RegexDepth(c, [i \in 0..(Len(c) - 1) |-> IncompleteJsonAttemptEnd(c, i)])
                > stack
    THEN Killed
    ELSE [value |-> IncompleteJsonSearch(c) \/ FunctionUnclosed(c),
          killed |-> FALSE]

----------------------------------------------------------------------------
(* Inputs: texts put together from named segments *)

\* Bounds of the model.
MaxParseSegs == 2
MaxParams == 3
MaxTagSegs == 4
MaxPartialSegs == 3
MaxInvocations == 3
NumContexts == 2
\* The characters a match attempt can advance over before the recursion of
\* the std::regex executor exhausts the stack of the calling thread.  With
\* DeepStack, a call on a region of 10000 characters returns and a call on
\* one of 50000 characters is killed, as on a thread with the default stack;
\* no text of the model is that long.  ShallowStack is a stack on which the
\* texts of the model give both outcomes: a region of one character is
\* matched, a longer one kills the process.
ShallowStack == 24
DeepStack == 20000

Seg(name) ==
    CASE name = "T_OPEN" -> TOOL_CALL_OPEN
      [] name = "T_CLOSE" -> TOOL_CALL_CLOSE
      [] name = "T_HALF1" -> <<"<","t","o","o","l","_">>
      [] name = "T_HALF2" -> <<"c","a","l","l",">">>
      [] name = "T_TEXT" -> <<" ","h","i","\n">>
      [] name = "T_REGION" -> TOOL_CALL_OPEN \o <<"x">> \o TOOL_CALL_CLOSE
      [] name = "B_OPEN" -> <<"{">>
      [] name = "B_CLOSE" -> <<"}">>
      [] name = "F_OPEN" -> FUNCTION_OPEN \o <<"f", ">">>
      [] name = "F_CLOSE" -> FUNCTION_CLOSE
      [] name = "PA_OPEN" -> PARAMETER_OPEN \o <<"p", ">">>
      [] name = "PA_CLOSE" -> PARAMETER_CLOSE
      \* {"name":"f", "arguments": {"a": [1, {"b":null}]}}
      [] name = "P_OBJ" ->
           TOOL_CALL_OPEN
           \o <<"{","\"","n","a","m","e","\"",":","\"","f","\"",","," ",
                "\"","a","r","g","u","m","e","n","t","s","\"",":"," ",
                "{","\"","a","\"",":"," ","[","1",","," ",
                "{","\"","b","\"",":","n","u","l","l","}","]","}","}">>
           \o TOOL_CALL_CLOSE
      \* {"name":"n\b","arguments":[1e2,1.50]}
      [] name = "P_NUM" ->
           TOOL_CALL_OPEN
           \o <<"{","\"","n","a","m","e","\"",":","\"","n","\\","b","\"",",",
                "\"","a","r","g","u","m","e","n","t","s","\"",":",
                "[","1","e","2",",","1",".","5","0","]","}">>
           \o TOOL_CALL_CLOSE
      \* {"name":"g","arguments":"hi"} with space around it
      [] name = "P_STR" ->
           TOOL_CALL_OPEN
           \o <<" ","{","\"","n","a","m","e","\"",":","\"","g","\"",",",
                "\"","a","r","g","u","m","e","n","t","s","\"",":",
                "\"","h","i","\"","}","\n">>
           \o TOOL_CALL_CLOSE
      \* {"name":"\u0065","arguments":"{\"a\": 1}"}
      [] name = "P_ESC" ->
           TOOL_CALL_OPEN
           \o <<"{","\"","n","a","m","e","\"",":",
                "\"","\\","u","0","0","6","5","\"",",",
                "\"","a","r","g","u","m","e","n","t","s","\"",":",
                "\"","{","\\","\"","a","\\","\"",":"," ","1","}","\"","}">>
           \o TOOL_CALL_CLOSE
      \* {"name":"h"}
      [] name = "P_NOARG" ->
           TOOL_CALL_OPEN
           \o <<"{","\"","n","a","m","e","\"",":","\"","h","\"","}">>
           \o TOOL_CALL_CLOSE
      \* {"name":"z","arguments":{"":""}}(0x00)}
      [] name = "P_NUL" ->
           TOOL_CALL_OPEN
           \o <<"{","\"","n","a","m","e","\"",":","\"","z","\"",",",
                "\"","a","r","g","u","m","e","n","t","s","\"",":",
                "{","\"","\"",":","\"","\"","}","}",Bytes[1],"}">>
           \o TOOL_CALL_CLOSE
      \* {"name":"","arguments":{}}
      [] name = "P_NONAME" ->
           TOOL_CALL_OPEN
           \o <<"{","\"","n","a","m","e","\"",":","\"","\"",",",
                "\"","a","r","g","u","m","e","n","t","s","\"",":","{","}","}">>
           \o TOOL_CALL_CLOSE
      \* {"name":}
      [] name = "P_BADJSON" ->
           TOOL_CALL_OPEN
           \o <<"{","\"","n","a","m","e","\"",":","}">>
           \o TOOL_CALL_CLOSE
      \* {"name":"k"
      [] name = "P_OPENBRACE" ->
           TOOL_CALL_OPEN
           \o <<"{","\"","n","a","m","e","\"",":","\"","k","\"">>
           \o TOOL_CALL_CLOSE
      \* <function=bar><parameter=x>5</parameter></function>
      [] name = "P_XML" ->
           TOOL_CALL_OPEN
           \o FUNCTION_OPEN \o <<"b","a","r",">">>
           \o PARAMETER_OPEN \o <<"x",">","5">> \o PARAMETER_CLOSE
           \o FUNCTION_CLOSE \o TOOL_CALL_CLOSE
      \* <function=bad><parameter=z>(0xFF)</parameter></function>
      [] name = "P_XMLBAD" ->
           TOOL_CALL_OPEN
           \o FUNCTION_OPEN \o <<"b","a","d",">">>
           \o PARAMETER_OPEN \o <<"z",">",BadByte>> \o PARAMETER_CLOSE
           \o FUNCTION_CLOSE \o TOOL_CALL_CLOSE
      [] name = "P_TEXT" -> <<"o","k"," ">>
      [] name = "X_HEAD" -> TOOL_CALL_OPEN \o FUNCTION_OPEN \o <<"f",">">>
      [] name = "X_TAIL" -> FUNCTION_CLOSE \o TOOL_CALL_CLOSE
      [] name = "X_A1" -> PARAMETER_OPEN \o <<"a",">"," ","1","\n">> \o PARAMETER_CLOSE
      [] name = "X_B2" -> PARAMETER_OPEN \o <<"b",">","2">> \o PARAMETER_CLOSE
      [] name = "X_A3" -> PARAMETER_OPEN \o <<"a",">","3">> \o PARAMETER_CLOSE
      [] name = "X_NOGT" -> PARAMETER_OPEN \o <<"c">>
      [] name = "X_NOCLOSE" -> PARAMETER_OPEN \o <<"d",">","4">>
      [] name = "X_EMPTY" -> PARAMETER_OPEN \o <<"e",">"," ","\n">> \o PARAMETER_CLOSE
      [] name = "X_QUOTE" -> PARAMETER_OPEN \o <<"q",">","\"","\\">> \o PARAMETER_CLOSE
      [] name = "X_BAD" -> PARAMETER_OPEN \o <<"z",">",BadByte>> \o PARAMETER_CLOSE

\* The text a sequence of segment names stands for.
Flatten(names) ==
    LET RECURSIVE FlattenFrom(_)
        FlattenFrom(i) ==
            IF i > Len(names) THEN <<>> ELSE Seg(names[i]) \o FlattenFrom(i + 1)
    IN FlattenFrom(1)

\* The sequences of at most n elements of S.
SeqsUpTo(S, n) == UNION {[1..k -> S] : k \in 0..n}

ParseSegments ==
    {"P_OBJ", "P_STR", "P_ESC", "P_NUM", "P_NUL", "P_NOARG", "P_NONAME", "P_BADJSON",
     "P_OPENBRACE", "P_XML", "P_TEXT"}
ParseInputs == SeqsUpTo(ParseSegments, MaxParseSegs)

ParamSegments ==
    {"X_A1", "X_B2", "X_A3", "X_EMPTY", "X_NOGT", "X_NOCLOSE", "X_QUOTE", "X_BAD"}
\* One region <tool_call><function=f> ... </function></tool_call>.
XmlInputs ==
    {<<"X_HEAD">> \o ps \o <<"X_TAIL">> : ps \in SeqsUpTo(ParamSegments, MaxParams)}

TagSegments == {"T_REGION", "T_OPEN", "T_CLOSE", "T_HALF1", "T_HALF2", "T_TEXT"}
\* The texts of the sanitizer: every sequence of at most MaxTagSegs segments,
\* and the texts that start with a region between the two halves of an
\* opening marker.
TagInputs ==
    SeqsUpTo(TagSegments, MaxTagSegs)
    \cup {<<"T_HALF1", "T_REGION", "T_HALF2">> \o rest :
              rest \in SeqsUpTo(TagSegments, MaxTagSegs - 2)}

PartialSegments ==
    {"T_REGION", "T_OPEN", "T_TEXT", "B_OPEN", "B_CLOSE", "F_OPEN", "F_CLOSE",
     "PA_OPEN", "PA_CLOSE"}
PartialInputs == SeqsUpTo(PartialSegments, MaxPartialSegs)

\* The texts of the runs of several invocations.
SeqInputs ==
    {<<"P_TEXT">>, <<"P_XML">>, <<"P_XML", "P_XML">>, <<"P_XML", "P_XMLBAD">>,
     <<"P_BADJSON", "P_XML">>, <<"P_OBJ", "P_XML">>,
     <<"P_BADJSON", "P_NOARG", "P_NONAME", "P_STR">>}

\* The stacks a call is made on.
Stacks == {DeepStack, ShallowStack}

\* The texts of the concurrent callers.
RaceInputs ==
    {<<"P_TEXT">>, <<"P_XML">>, <<"P_BADJSON", "P_XML", "P_XML">>,
     <<"P_XMLBAD", "P_XML">>}

----------------------------------------------------------------------------
(* State machine *)

Contexts == 1..NumContexts

\* A caller of SpecRace: pc is its position in parse_universal_xml_tool_calls,
\* text and pos the locals of that name, region the region line 92 was
\* reached for, reg the register its increment works in, calls its
\* tool_calls, result the list it returned.  raced is not part of the
\* program: it records that another caller wrote the counter inside one of
\* this caller's increments.
IdleContext ==
    [pc |-> "idle", text |-> <<>>, pos |-> 0, region |-> Skipped(0), reg |-> 0,
     calls |-> <<>>, raced |-> FALSE, result |-> <<>>]

Init ==
    /\ text = <<>>
    /\ segs = <<>>
    /\ is_partial = FALSE
    /\ regex_stack = DeepStack
    /\ killed = FALSE
    /\ op = "none"
    /\ tool_calls = <<>>
    /\ xml_invoked = FALSE
    /\ json_calls = <<>>
    /\ content = <<>>
    /\ kept = <<>>
    /\ cut = NPOS
    /\ partial = FALSE
    /\ universal_call_counter = 0
    /\ counter_before = 0
    /\ issued = <<>>
    /\ invocations = 0
    /\ ctx = [c \in Contexts |-> IdleContext]

\* The ids of a list of tool calls.
Ids(calls) == [i \in 1..Len(calls) |-> calls[i].id]

\* An extractor call named name on the text t: it returned r, or the
\* process was killed in it.
Extracted(name, sg, t, stack, r) ==
    /\ text' = t
    /\ segs' = sg
    /\ regex_stack' = stack
    /\ killed' = r.killed
    /\ op' = name
    /\ invocations' = invocations + 1
    /\ IF r.killed
       THEN UNCHANGED <<tool_calls, json_calls, xml_invoked,
                        universal_call_counter, counter_before, issued>>
       ELSE /\ tool_calls' = r.calls
            /\ json_calls' = r.json
            /\ xml_invoked' = r.xml_invoked
            /\ universal_call_counter' = r.counter
            /\ counter_before' = universal_call_counter
            /\ issued' = IF r.xml_invoked THEN issued \o Ids(r.calls) ELSE issued
    /\ UNCHANGED <<is_partial, content, kept, cut, partial, ctx>>

\* A call of parse_tool_calls(t).
ParseToolCallsOn(sg, t, stack) ==
    Extracted("parse_tool_calls", sg, t, stack,
              parse_tool_calls(t, universal_call_counter, stack))

DoParseToolCalls(sg, stack) == ParseToolCallsOn(sg, Flatten(sg), stack)

\* What a direct call of the XML extractor returned, as a result of
\* parse_tool_calls is recorded.
DirectXml(r) ==
    [calls |-> r.calls, json |-> <<>>, xml_invoked |-> TRUE, counter |-> r.counter,
     killed |-> FALSE]

\* A call of parse_universal_xml_tool_calls(t), which uses no std::regex.
ParseUniversalXmlOn(sg, t) ==
    Extracted("parse_universal_xml_tool_calls", sg, t, regex_stack,
              DirectXml(parse_universal_xml_tool_calls(t, universal_call_counter)))

DoParseUniversalXml(sg) == ParseUniversalXmlOn(sg, Flatten(sg))

\* A call of extract_content_during_parsing(Flatten(sg), flag), directly
\* (name = "extract_content_during_parsing") or through clean_content: it
\* returned r, or the process was killed in it.
Sanitized(name, sg, t, flag, stack, r) ==
    /\ text' = t
    /\ segs' = sg
    /\ is_partial' = flag
    /\ regex_stack' = stack
    /\ killed' = r.killed
    /\ op' = name
    /\ invocations' = invocations + 1
    /\ IF r.killed THEN UNCHANGED <<content, kept, cut>>
       ELSE /\ content' = r.content
            /\ kept' = r.kept
            /\ cut' = r.cut
    /\ UNCHANGED <<tool_calls, xml_invoked, json_calls, partial,
                   universal_call_counter, counter_before, issued, ctx>>

ExtractContentOn(name, sg, t, flag, stack) ==
    Sanitized(name, sg, t, flag, stack,
              IF name = "clean_content" THEN clean_content(t, stack)
              ELSE extract_content_during_parsing(t, flag, stack))

DoExtractContent(name, sg, flag, stack) ==
    ExtractContentOn(name, sg, Flatten(sg), flag, stack)

\* A call of is_partial_content_advanced(Flatten(sg)): it returned r, or
\* the process was killed in it.
Classified(sg, t, stack, r) ==
    /\ text' = t
    /\ segs' = sg
    /\ regex_stack' = stack
    /\ killed' = r.killed
    /\ op' = "is_partial_content_advanced"
    /\ invocations' = invocations + 1
    /\ partial' = IF r.killed THEN partial ELSE r.value
    /\ UNCHANGED <<is_partial, tool_calls, xml_invoked, json_calls, content,
                   kept, cut, universal_call_counter, counter_before, issued, ctx>>

DoIsPartial(sg, stack) ==
    Classified(sg, Flatten(sg), stack,
               is_partial_content_advanced(Flatten(sg), stack))

(* Spec: one call of one function on one input. *)

CallParseToolCalls ==
    /\ op = "none"
    /\ \E sg \in ParseInputs, stack \in Stacks : DoParseToolCalls(sg, stack)

CallParseUniversalXml ==
    /\ op = "none"
    /\ \E sg \in XmlInputs : DoParseUniversalXml(sg)

CallExtractContent ==
    /\ op = "none"
    /\ \E sg \in TagInputs, flag \in BOOLEAN, stack \in Stacks :
           DoExtractContent("extract_content_during_parsing", sg, flag, stack)

CallCleanContent ==
    /\ op = "none"
    /\ \E sg \in TagInputs, stack \in Stacks :
           DoExtractContent("clean_content", sg, FALSE, stack)

CallIsPartial ==
    /\ op = "none"
    /\ \E sg \in PartialInputs, stack \in Stacks : DoIsPartial(sg, stack)

Next ==
    \/ CallParseToolCalls
    \/ CallParseUniversalXml
    \/ CallExtractContent
    \/ CallCleanContent
    \/ CallIsPartial

Spec == Init /\ [][Next]_vars

(* SpecSeq: a process lifetime of several extractor calls, one after another, *)
(* which ends with the call the process is killed in.                        *)

InvokeParseToolCalls ==
    /\ invocations < MaxInvocations
    /\ ~killed
    /\ \E sg \in SeqInputs, stack \in Stacks : DoParseToolCalls(sg, stack)

InvokeParseUniversalXml ==
    /\ invocations < MaxInvocations
    /\ ~killed
    /\ \E sg \in SeqInputs : DoParseUniversalXml(sg)

NextSeq == InvokeParseToolCalls \/ InvokeParseUniversalXml

SpecSeq == Init /\ [][NextSeq]_vars

(* SpecRace: several callers inside parse_universal_xml_tool_calls at once. *)
(* ++universal_call_counter on the plain static int of line 93 is a load,   *)
(* an add and a store; the value handed to std::to_string is the register   *)
(* or a second load of the counter, as the build chooses.                   *)

\* What SpecRace leaves alone.
sequential_vars ==
    <<text, segs, is_partial, regex_stack, killed, op, tool_calls,
      xml_invoked, json_calls, content, kept, cut, partial, counter_before,
      issued, invocations>>

\* Entry: a caller starts a scan of its text at line 20.
RaceStart(c) ==
    /\ ctx[c].pc = "idle"
    /\ \E sg \in RaceInputs :
           ctx' = [ctx EXCEPT ![c] = [IdleContext EXCEPT !.pc = "scan",
                                                         !.text = Flatten(sg)]]
    /\ UNCHANGED <<universal_call_counter, sequential_vars>>

\* One iteration of the while loop up to line 92.
RaceScan(c) ==
    LET \* Lines 26-90 and 107 for the region r of the caller x.
        ScanRegion(x, r) ==
            IF r.qualified THEN [x EXCEPT !.pc = "load", !.region = r]
            ELSE [x EXCEPT !.pos = r.next]
        \* Lines 23 and 114: the loop ends and the list is returned, or
        \* the next region is read.
        ScanStep(x, tool_call_start) ==
            IF tool_call_start = NPOS THEN [x EXCEPT !.pc = "done", !.result = x.calls]
            ELSE ScanRegion(x, XmlRegion(x.text, tool_call_start))
    IN /\ ctx[c].pc = "scan"
       /\ ctx' = [ctx EXCEPT ![c] = ScanStep(ctx[c],
                                             Find(ctx[c].text, TOOL_CALL_OPEN, ctx[c].pos))]
       /\ UNCHANGED <<universal_call_counter, sequential_vars>>

\* Line 94, the load of ++universal_call_counter.
RaceLoad(c) ==
    /\ ctx[c].pc = "load"
    /\ ctx' = [ctx EXCEPT ![c].pc = "store", ![c].reg = universal_call_counter]
    /\ UNCHANGED <<universal_call_counter, sequential_vars>>

\* Line 94, the store of ++universal_call_counter.
RaceStore(c) ==
    /\ ctx[c].pc = "store"
    /\ universal_call_counter' = ctx[c].reg + 1
    /\ ctx' = [ctx EXCEPT ![c].pc = "use",
                          ![c].raced = @ \/ universal_call_counter # ctx[c].reg]
    /\ UNCHANGED sequential_vars

\* Lines 94-107: the value of ++universal_call_counter names the id, and the
\* call is appended.
RaceUse(c) ==
    LET \* Lines 97-107 and 109-112 for the caller x, whose increment gave n.
        UseValue(x, n) ==
            IF DumpThrows(x.region.args)
            THEN [x EXCEPT !.pc = "done", !.result = <<>>,
                           !.raced = @ \/ n # x.reg + 1]
            ELSE [x EXCEPT !.pc = "scan", !.pos = x.region.next,
                           !.calls = Append(@, UniversalCall(x.region, n - 1)),
                           !.raced = @ \/ n # x.reg + 1]
    IN /\ ctx[c].pc = "use"
       /\ \E n \in {ctx[c].reg + 1, universal_call_counter} :
              ctx' = [ctx EXCEPT ![c] = UseValue(ctx[c], n)]
       /\ UNCHANGED <<universal_call_counter, sequential_vars>>

NextRace ==
    \E c \in Contexts :
        \/ RaceStart(c)
        \/ RaceScan(c)
        \/ RaceLoad(c)
        \/ RaceStore(c)
        \/ RaceUse(c)

SpecRace == Init /\ [][NextRace]_vars

----------------------------------------------------------------------------
(* Properties *)

\* The last call was a call of the function name, and the process was not
\* killed in it.
Returned(name) == op = name /\ ~killed

DigitValue(d) ==
    CASE d = "0" -> 0 [] d = "1" -> 1 [] d = "2" -> 2 [] d = "3" -> 3
      [] d = "4" -> 4 [] d = "5" -> 5 [] d = "6" -> 6 [] d = "7" -> 7
      [] d = "8" -> 8 [] d = "9" -> 9

\* ds is a decimal numeral without a leading zero.
IsNumeral(ds) ==
    /\ ds # <<>>
    /\ \A i \in 1..Len(ds) : ds[i] \in {"0","1","2","3","4","5","6","7","8","9"}
    /\ Len(ds) > 1 => ds[1] # "0"

RECURSIVE NumeralValue(_, _)
\* The number the first i digits of ds stand for.
NumeralValue(ds, i) ==
    IF i = 0 THEN 0 ELSE 10 * NumeralValue(ds, i - 1) + DigitValue(ds[i])

\* id is prefix followed by a numeral.
HasPrefix(id, prefix) ==
    /\ Len(id) > Len(prefix)
    /\ SubSeq(id, 1, Len(prefix)) = prefix
    /\ IsNumeral(SubSeq(id, Len(prefix) + 1, Len(id)))

\* The number behind the prefix of an id.
IdNumber(id, prefix) ==
    NumeralValue(SubSeq(id, Len(prefix) + 1, Len(id)), Len(id) - Len(prefix))

\* id is prefix followed by the numeral of n.
IsId(id, prefix, n) == HasPrefix(id, prefix) /\ IdNumber(id, prefix) = n

Names(calls) == [i \in 1..Len(calls) |-> calls[i].name]

\* s holds "<tool_call>" at p and "</tool_call>" somewhere after it.
ClosedOpenerAt(s, p) ==
    StartsWithAt(s, TOOL_CALL_OPEN, p) /\ Find(s, TOOL_CALL_CLOSE, p) # NPOS

\* s holds "<tool_call>" at p and no "</tool_call>" after it.
OpenOpenerAt(s, p) ==
    StartsWithAt(s, TOOL_CALL_OPEN, p) /\ Find(s, TOOL_CALL_CLOSE, p) = NPOS

\* s holds a "<tool_call>" that a later "</tool_call>" closes.
HasRegion(s) == \E p \in 0..(Len(s) - 1) : ClosedOpenerAt(s, p)

\* The position of the first "<tool_call>" of s with no "</tool_call>" after
\* it, or npos.
FirstUnterminated(s) ==
    IF \E p \in 0..(Len(s) - 1) : OpenOpenerAt(s, p)
    THEN CHOOSE p \in 0..(Len(s) - 1) :
             OpenOpenerAt(s, p) /\ \A q \in 0..(p - 1) : ~OpenOpenerAt(s, q)
    ELSE NPOS

RECURSIVE RegionPayloads(_, _)
PayloadsClosed(t, i, c) ==
    IF c = NPOS THEN <<>>
    ELSE <<Substr(t, i + TOOL_CALL_OPEN_LEN, c - i - TOOL_CALL_OPEN_LEN)>>
         \o RegionPayloads(t, c + TOOL_CALL_CLOSE_LEN)
PayloadsFrom(t, i) ==
    IF i = NPOS THEN <<>>
    ELSE PayloadsClosed(t, i, Find(t, TOOL_CALL_CLOSE, i + TOOL_CALL_OPEN_LEN))

\* What stands between "<tool_call>" and the next "</tool_call>" in each
\* region of t from pos on, in text order.
RegionPayloads(t, pos) == PayloadsFrom(t, Find(t, TOOL_CALL_OPEN, pos))

\* parsed is a JSON object with a non-empty string "name".
NamedObject(parsed) ==
    /\ parsed.ok
    /\ parsed.v.t = "object"
    /\ \E i \in 1..Len(parsed.v.m) :
           /\ parsed.v.m[i].k = NAME
           /\ parsed.v.m[i].v.t = "string"
           /\ parsed.v.m[i].v.s # <<>>

IsValidPayload(p) == NamedObject(JsonParse(p))

NamesOf(payloads) ==
    [i \in 1..Len(payloads) |-> At(JsonParse(payloads[i]).v, NAME).s]

\* The names of the regions of t whose payload is a valid call object.
ValidNames(t) == NamesOf(SelectSeq(RegionPayloads(t, 0), IsValidPayload))

C2_OnlyFailedCandidatesDropped ==
    Returned("parse_tool_calls") => Names(json_calls) = ValidNames(text)

\* C2 (witness): a candidate with "{" and no "}" is followed by a valid
\* region, and the JSON pass emits nothing.
C2_ValidRegionLost ==
    /\ Returned("parse_tool_calls")
    /\ segs = <<"P_OPENBRACE", "P_OBJ">>
    /\ json_calls = <<>>
    /\ ValidNames(text) = <<<<"f">>>>

\* Either extractor was called last, and the call returned.
Extracting ==
    Returned("parse_tool_calls") \/ Returned("parse_universal_xml_tool_calls")

\* C3 (as stated): the arguments of every emitted call are valid JSON text,
\* whether they were serialized from a structured value, defaulted to "{}",
\* handed on from a string or serialized from the XML parameters.
C3_ArgumentsAlwaysJson ==
    Extracting =>
        \A i \in 1..Len(tool_calls) :
            /\ tool_calls[i].kind \in {"structured", "absent", "string", "parameters"}
            /\ JsonParse(tool_calls[i].arguments).ok

\* C3 (witness): the call object {"name":"g","arguments":"hi"} is emitted
\* with the arguments hi, which is no JSON text.
C3_StringHandedOnUnchecked ==
    /\ Returned("parse_tool_calls")
    /\ segs = <<"P_STR">>
    /\ Len(tool_calls) = 1
    /\ tool_calls[1].name = <<"g">>
    /\ tool_calls[1].kind = "string"
    /\ tool_calls[1].arguments = <<"h", "i">>
    /\ ~JsonParse(tool_calls[1].arguments).ok

\* C4 (as stated): is_partial_content_advanced returns true for every text
\* that holds a "<tool_call>" with no "</tool_call>" after it.
C4_UnterminatedOpenerIsPartial ==
    Returned("is_partial_content_advanced") =>
        (FirstUnterminated(text) # NPOS => partial)

\* C4 (witness): a complete region precedes an unterminated "<tool_call>",
\* and the predicate returned false.
C4_TrailingOpenerMissed ==
    /\ Returned("is_partial_content_advanced")
    /\ HasRegion(text)
    /\ FirstUnterminated(text) # NPOS
    /\ ~partial

\* The sanitizer was called last, and the call returned.
Sanitizing == Returned("extract_content_during_parsing") \/ Returned("clean_content")

KeptSet == {kept[k] : k \in 1..Len(kept)}

\* The "<tool_call>" at position p of content is eleven neighbouring
\* characters of text.
Contiguous(p) ==
    kept[p + TOOL_CALL_OPEN_LEN] - kept[p + 1] = TOOL_CALL_OPEN_LEN - 1

\* C5 (amended): the sanitizer removes every "<tool_call>" of the input that
\* a "</tool_call>" follows: its output is made of characters of the input
\* in their order, none of them part of such a marker.  With isPartial true
\* the output holds no "<tool_call>" at all; with isPartial false a
\* "<tool_call>" with a later "</tool_call>" is left in the output only where
\* the removal of a region joined the text before and behind it into that
\* marker.
C5_InputRegionsRemoved ==
    Sanitizing =>
        /\ content = Pick(text, kept)
        /\ \A k \in 1..(Len(kept) - 1) : kept[k] < kept[k + 1]
        /\ \A p \in 0..(Len(text) - 1) :
               ClosedOpenerAt(text, p) =>
                   \A q \in p..(p + TOOL_CALL_OPEN_LEN - 1) : q \notin KeptSet
        /\ is_partial => Find(content, TOOL_CALL_OPEN, 0) = NPOS
        /\ \A p \in 0..(Len(content) - 1) :
               ClosedOpenerAt(content, p) => ~Contiguous(p)

\* C5 (witness): the input held regions with text between them, and the
\* output is that text, with no region left.
C5_RegionRemoved ==
    /\ Sanitizing
    /\ HasRegion(text)
    /\ Len(kept) < Len(text)
    /\ content # <<>>
    /\ ~HasRegion(content)

\* C5 (as stated): the output holds no "<tool_call>" that a later
\* "</tool_call>" closes.
C5_OutputHasNoRegion == Sanitizing => ~HasRegion(content)

\* What regex_replace leaves of text.
Replaced == Pick(text, KeptByReplace(text, 0))

\* C6 (as stated): with isPartial true the output is the trimmed text in
\* front of the first unterminated "<tool_call>", the regions before it
\* removed: it holds no "<tool_call>", nothing at or after the first
\* unterminated "<tool_call>" of the input, and it is cut only at a marker
\* that no "</tool_call>" follows.
C6_CutOnlyAtUnterminatedMarker ==
    (Returned("extract_content_during_parsing") /\ is_partial) =>
        /\ Find(content, TOOL_CALL_OPEN, 0) = NPOS
        /\ FirstUnterminated(text) # NPOS =>
               \A k \in 1..Len(kept) : kept[k] < FirstUnterminated(text)
        /\ cut # NPOS =>
               Find(Replaced, TOOL_CALL_CLOSE, Find(Replaced, TOOL_CALL_OPEN, 0)) = NPOS

\* C6 (witness): no "<tool_call>" of the input is unterminated; the removal
\* of a region joined the text around it into a "<tool_call>" that a
\* "</tool_call>" follows, the output was cut at it and the text behind that
\* "</tool_call>" is not displayed.
C6_CutAtClosedMarker ==
    /\ Returned("extract_content_during_parsing")
    /\ is_partial
    /\ segs = <<"T_HALF1", "T_REGION", "T_HALF2", "T_CLOSE", "T_TEXT">>
    /\ Replaced = TOOL_CALL_OPEN \o TOOL_CALL_CLOSE \o Seg("T_TEXT")
    /\ FirstUnterminated(text) = NPOS
    /\ cut # NPOS
    /\ content = <<>>

\* The segments that are regions the XML extractor qualifies.
QualifiedRegion(seg) == seg \in {"P_XML", "P_XMLBAD"}

\* The qualified regions the scan of the text of sg reaches: all of them, or
\* those up to the first one whose parameters cannot be serialized.
RegionsReached(sg) ==
    LET regions == SelectSeq(sg, QualifiedRegion)
        Failing == {i \in 1..Len(regions) : regions[i] = "P_XMLBAD"}
    IN [count |-> IF Failing = {} THEN Len(regions)
                  ELSE CHOOSE i \in Failing : \A j \in Failing : i <= j,
        failed |-> Failing # {}]

\* C7 (amended): across any sequence of invocations the ids the XML extractor
\* returns are call_universal_N with N strictly increasing in emission order,
\* within a list and from one invocation to the next, so that none is issued
\* twice.  The counter is left alone by disqualified regions and by
\* invocations the JSON extractor answers; it advances once for every
\* qualified region the scan reaches.  An invocation returns one call for
\* each of these regions, numbered from the old counter value on, unless the
\* parameters of one of them cannot be serialized: then it returns an empty
\* list, and the counter has advanced once for that region and once for every
\* qualified region in front of it.
C7_XmlIdsIncreaseCounterCountsRegions ==
    /\ \A i \in 1..Len(issued) : HasPrefix(issued[i], CALL_UNIVERSAL)
    /\ \A i \in 1..(Len(issued) - 1) :
           IdNumber(issued[i], CALL_UNIVERSAL) < IdNumber(issued[i + 1], CALL_UNIVERSAL)
    /\ \A i \in 1..Len(issued) :
           IdNumber(issued[i], CALL_UNIVERSAL) \in 1..universal_call_counter
    /\ ~xml_invoked => universal_call_counter = counter_before
    /\ (xml_invoked /\ ~killed) =>
           /\ universal_call_counter = counter_before + RegionsReached(segs).count
           /\ IF RegionsReached(segs).failed THEN tool_calls = <<>>
              ELSE /\ Len(tool_calls) = RegionsReached(segs).count
                   /\ \A i \in 1..Len(tool_calls) :
                          IsId(tool_calls[i].id, CALL_UNIVERSAL, counter_before + i)

\* C7 (witness): an earlier invocation lost ids to a failed serialization,
\* and a later one returned calls of the XML extractor.
C7_IdsIssuedAfterGap ==
    /\ invocations >= 2
    /\ ~killed
    /\ xml_invoked
    /\ tool_calls # <<>>
    /\ Len(issued) > Len(tool_calls)
    /\ universal_call_counter > Len(issued)

\* C7 (as stated): the ids of the XML extractor are strictly increasing, and
\* the counter advances by exactly the number of calls an invocation of the
\* XML extractor emits, and not at all otherwise.
C7_CounterAdvancesOnlyOnEmission ==
    /\ \A i \in 1..(Len(issued) - 1) :
           IdNumber(issued[i], CALL_UNIVERSAL) < IdNumber(issued[i + 1], CALL_UNIVERSAL)
    /\ universal_call_counter - counter_before
           = IF xml_invoked THEN Len(tool_calls) ELSE 0

\* C8: in an invocation the JSON extractor answers, the n calls returned carry
\* the ids qwen3_call_1 .. qwen3_call_n in list order, whatever was called
\* before and however many candidates were skipped.
C8_JsonIdsStartAtOne ==
    (Returned("parse_tool_calls") /\ ~xml_invoked) =>
        /\ tool_calls = json_calls
        /\ \A i \in 1..Len(tool_calls) : IsId(tool_calls[i].id, QWEN3_CALL, i)

\* C8 (witness): after earlier invocations, one of them of the XML
\* extractor, the JSON extractor skips candidates and returns two calls.
C8_JsonIdsAfterEarlierCalls ==
    /\ Returned("parse_tool_calls")
    /\ ~xml_invoked
    /\ invocations >= 2
    /\ universal_call_counter > 0
    /\ Len(tool_calls) >= 2
    /\ Len(RegionPayloads(text, 0)) > Len(tool_calls)

\* The calls the concurrent callers have appended: caller and index.
RaceCalls == UNION {{<<c, i>> : i \in 1..Len(ctx[c].calls)} : c \in Contexts}

RaceId(e) == ctx[e[1]].calls[e[2]].id

\* C9: as long as no caller had the counter written by another one inside
\* its read-increment-write, the ids of the concurrent callers are
\* call_universal_N with N up to the counter and pairwise distinct: a
\* duplicate comes only from the interleaving of two increments.
C9_DuplicateOnlyByInterleaving ==
    (\A c \in Contexts : ~ctx[c].raced) =>
        /\ \A e \in RaceCalls :
               /\ HasPrefix(RaceId(e), CALL_UNIVERSAL)
               /\ IdNumber(RaceId(e), CALL_UNIVERSAL) \in 1..universal_call_counter
        /\ \A e, f \in RaceCalls : e # f => RaceId(e) # RaceId(f)

\* C9 (witness): two callers have returned, and a call of one carries the id
\* of a call of the other.
C9_DuplicateIdReturned ==
    \E c, d \in Contexts :
        /\ c # d
        /\ ctx[c].pc = "done"
        /\ ctx[d].pc = "done"
        /\ \E i \in 1..Len(ctx[c].result), j \in 1..Len(ctx[d].result) :
               ctx[c].result[i].id = ctx[d].result[j].id

\* The parameter segments of a text of XmlInputs.
ParamsOf(sg) == SubSeq(sg, 2, Len(sg) - 1)

\* The segments that are complete <parameter=KEY>VALUE</parameter> pairs.
CompletePairs == {"X_A1", "X_B2", "X_A3", "X_EMPTY", "X_QUOTE", "X_BAD"}

PairKey(seg) ==
    CASE seg \in {"X_A1", "X_A3"} -> <<"a">>
      [] seg = "X_B2" -> <<"b">>
      [] seg = "X_EMPTY" -> <<"e">>
      [] seg = "X_QUOTE" -> <<"q">>
      [] seg = "X_BAD" -> <<"z">>

\* The value of a complete pair, trimmed.
PairValue(seg) ==
    CASE seg = "X_A1" -> <<"1">>
      [] seg = "X_B2" -> <<"2">>
      [] seg = "X_A3" -> <<"3">>
      [] seg = "X_EMPTY" -> <<>>
      [] seg = "X_QUOTE" -> <<"\"", "\\">>
      [] seg = "X_BAD" -> <<BadByte>>

\* The index of the first segment that is no complete pair (past the end:
\* none).
FirstMalformed(ps) ==
    CHOOSE k \in 1..(Len(ps) + 1) :
        /\ k <= Len(ps) => ps[k] \notin CompletePairs
        /\ \A j \in 1..(k - 1) : ps[j] \in CompletePairs

\* The members of the object j are the pairs ps, a repeated key holding the
\* value of its last pair.
HoldsPairs(j, ps) ==
    /\ j.t = "object"
    /\ {j.m[i].k : i \in 1..Len(j.m)} = {PairKey(ps[i]) : i \in 1..Len(ps)}
    /\ Len(j.m) = Cardinality({PairKey(ps[i]) : i \in 1..Len(ps)})
    /\ \A i \in 1..Len(ps) :
           (\A n \in (i + 1)..Len(ps) : PairKey(ps[n]) # PairKey(ps[i])) =>
               At(j, PairKey(ps[i])) = JString(PairValue(ps[i]))

\* One call named f was returned, and its arguments decode to the pairs ps.
EmittedWith(ps) ==
    /\ Len(tool_calls) = 1
    /\ tool_calls[1].name = <<"f">>
    /\ JsonParse(tool_calls[1].arguments).ok
    /\ HoldsPairs(JsonParse(tool_calls[1].arguments).v, ps)

\* The complete pairs in front of index k.
Before(ps, k) == SubSeq(ps, 1, k - 1)

\* C10 (as stated, for values that are valid UTF-8): the call of a region is
\* emitted with exactly the complete pairs in front of the first malformed
\* one, values trimmed and a repeated key holding the later value, whatever
\* follows the malformed pair in the region.
C10_NothingBehindMalformedPairCounts ==
    (Returned("parse_universal_xml_tool_calls") /\ ~InvalidUtf8(text)) =>
        EmittedWith(Before(ParamsOf(segs), FirstMalformed(ParamsOf(segs))))

\* C10 (witness): a pair without its ">" is followed by a complete pair, and
\* the call is emitted with the key c<parameter=b and the value 2 instead of
\* no pair at all.
C10_LaterMarkupCollected ==
    /\ Returned("parse_universal_xml_tool_calls")
    /\ segs = <<"X_HEAD", "X_NOGT", "X_B2", "X_TAIL">>
    /\ Len(tool_calls) = 1
    /\ tool_calls[1].name = <<"f">>
    /\ tool_calls[1].arguments
           = <<"{", "\"", "c">> \o PARAMETER_OPEN \o <<"b", "\"", ":", "\"", "2", "\"", "}">>

====
